---- MODULE Spec2Model ----
(***************************************************************************)
(* Model of the waveguide stream registry and supervisor                   *)
(* (src/pkg/control/control.go, lines 1-366) together with the goroutines  *)
(* that call it, of a handshake-dialect connection (src/unnamed/part_002)  *)
(* and of a message-dialect connection (src/unnamed/part_001).             *)
(*                                                                         *)
(* The registry (Control.streams, Control.metadataCollectors) is a pair of *)
(* plain Go maps with no mutex, so every goroutine's accesses interleave   *)
(* at the granularity of the steps below.  A step that only calls an       *)
(* external collaborator (service, orchestrator) is merged with the        *)
(* registry access that follows it in program order.  A Stream object that *)
(* nothing refers to any more (no map entry, no goroutine) is garbage and  *)
(* is kept as DeadObj.                                                     *)
(***************************************************************************)
EXTENDS Integers, Sequences, FiniteSets, TLC

\* ------------------------------------------------------------------ bounds
MaxStreams == 2      \* Stream objects newStream registers in one run
MaxTicks == 7        \* ticks recorded in the history of a heartbeat
MaxBeatStreams == 1  \* Stream objects started while ticks are recorded (SpecHB)
MaxWire == 3         \* messages a handshake connection writes to its client
MaxMediaLoops == 2   \* media goroutines a handshake connection starts
MaxMedia == 3        \* media callbacks of a message connection
MaxFrames == 3       \* previews the preview goroutine of a Stream queues

\* --------------------------------------------------------- program constants
HeartbeatThreshold == 5   \* control.go:225  if tickFailed >= 5
StopChanCap == 1          \* control.go:330  make(chan bool, 1)
CollectorChanCap == 1     \* control.go:345  make(chan bool, 1)
BANDWIDTH_LIMIT == 8000000  \* part_001:38   8000 * 1000
MetadataThreshold == 5    \* part_001:547  if h.metadataFailures > 5
StopCollectionCap == 1    \* part_001:85   make(chan bool, 1)
BlockSize == 960          \* part_001:327  blockSize := 960
ThumbnailCap == 10        \* control.go:333  make(chan []byte, 10)

Channels == {1, 2}
Objs == 1..MaxStreams
Callers == {1, 2}
Keys == {"k1", "k2"}

\* The secret the external service holds for each channel.
ServiceSecret(c) == IF c = 1 THEN "k1" ELSE "k2"

Conn(i) == <<"conn", i>>
Hb(id) == <<"hb", id>>
Pv(id) == <<"pv", id>>
Sd == <<"sd", 0>>
ConnTasks == {Conn(i) : i \in Callers}
HbTasks == {Hb(id) : id \in Objs}
PvTasks == {Pv(id) : id \in Objs}
Tasks == ConnTasks \cup HbTasks \cup PvTasks \cup {Sd}
Kind(t) == t[1]

VARIABLES
  streams,             \* Control.streams: channel -> Stream object, 0 = no entry
  metadataCollectors,  \* Control.metadataCollectors: channel -> chan, 0 = no entry
  obj,                 \* heap of Stream objects (with the chan each newStream made)
  task,                \* every goroutine's position and call frame
  sdIter,              \* Shutdown's range over Control.streams
  proc,                \* "running", "exited" (os.Exit after Shutdown) or "fatal"
  last,                \* what the latest step returned to its caller (NoEvent: nothing)
  ftl,                 \* one handshake-dialect connection (part_002 FtlConnection)
  rtmp                 \* one message-dialect connection (part_001 connHandler)

vars == <<streams, metadataCollectors, obj, task, sdIter, proc, last, ftl, rtmp>>
ingestVars == <<ftl, rtmp>>
controlVars == <<streams, metadataCollectors, obj, task, sdIter, proc, last>>

\* ------------------------------------------------------------ initial state
\* A Stream object and the collector chan made with it (mc: tokens in it).
\* endCalls counts service.EndStream calls for it, started says StartStream
\* returned it, live that no StopStream of its channel was called since.
\* lastThumbnail is the queue of previews, oldest first, each preview the
\* number it was queued under; frames counts the previews queued so far and
\* drained is the latest one a heartbeat has taken out.
BlankObj ==
  [ch |-> 0, StreamID |-> 0, tracks |-> 0, stopHeartbeat |-> 0, stopPeersnap |-> 0,
   mc |-> 0, cancelled |-> FALSE, endCalls |-> 0, started |-> FALSE, live |-> FALSE,
   lastThumbnail |-> <<>>, frames |-> 0, drained |-> 0]

\* A goroutine: its position, the call it is in, that call's channelID, the
\* Stream StartStream made (own) and the one StopStream looked up (st), the
\* collaborators and chans the call has used so far, the heartbeat's local
\* counter and (when recorded) the ticks it has processed.
BlankTask ==
  [pc |-> "idle", op |-> "none", ch |-> 0, own |-> 0, st |-> 0, calls |-> {},
   tickFailed |-> 0, ticks |-> <<>>]
NoTask == [BlankTask EXCEPT !.pc = "none"]
DoneTask == [BlankTask EXCEPT !.pc = "done"]
DeadObj == [BlankObj EXCEPT !.ch = -1]

\* The return of a call: who returned from what with which result.  For a
\* heartbeat tick: the calls that returned an error, the counter before and
\* after, whether a StopStream of the Stream had already returned, the
\* preview queue the tick found, the latest preview taken out before it, and
\* the previews it passed to service.SendJpegPreviewImage.  For a StopStream
\* that got to line 154: the service.EndStream calls made so far with the
\* StreamID of its Stream.
NoEvent ==
  [t |-> <<"none", 0>>, op |-> "none", ch |-> 0, ret |-> "none", own |-> 0, st |-> 0,
   calls |-> {}, ticks |-> <<>>, got |-> 0, key |-> "none", lookupOk |-> FALSE,
   errs |-> {}, before |-> 0, after |-> 0, stopped |-> FALSE,
   queued |-> <<>>, drained |-> 0, delivered |-> <<>>, left |-> <<>>, ended |-> 0]
Event(t, r, res) ==
  [NoEvent EXCEPT !.t = t, !.op = r.op, !.ch = r.ch, !.ret = res, !.own = r.own,
                  !.st = r.st, !.calls = r.calls, !.ticks = r.ticks]

NoIter == [pending |-> {}, optional |-> {}, snap |-> [c \in Channels |-> 0], stopped |-> {}]

\* The FtlConnection Serve builds for an accepted socket (part_002 lines
\* 96-103) with its read goroutine at the top of its loop, the UDP sockets the
\* process has open, the tracks' contents and the bytes written to the client.
\* hmacPayload is nil (<<>>) until HMAC is processed; the payload types are
\* Go's zero value.  videoSet and audioSet collect the values attribute lines
\* stored, closes counts handler.OnClose calls, digestMatched says that the
\* hmac.Equal of a CONNECT has returned true.
NoFtlEvent ==
  [op |-> "none", ret |-> "none", cause |-> "none", matched |-> FALSE, channelArg |-> "none",
   hex |-> <<>>, nonce |-> <<>>, issued |-> FALSE, second |-> FALSE, calls |-> {},
   sent |-> <<>>, wireBefore |-> <<>>, pt |-> -1, to |-> "none", listened |-> FALSE,
   line |-> "", before |-> [hasAuthenticated |-> FALSE, hmacRequested |-> FALSE,
                            VideoPayloadType |-> 0, AudioPayloadType |-> 0]]
NewFtlConnection ==
  [transport |-> "open", connected |-> TRUE, mediaConnected |-> FALSE,
   mediaTransport |-> 0, assignedMediaPort |-> 0, sockets |-> {},
   channelID |-> 0, hmacPayload |-> <<>>, issued |-> FALSE,
   hasAuthenticated |-> FALSE, hmacRequested |-> FALSE, digestMatched |-> FALSE,
   VideoPayloadType |-> 0, AudioPayloadType |-> 0, videoSet |-> {}, audioSet |-> {},
   tracks |-> FALSE, handed |-> FALSE, played |-> FALSE,
   reader |-> "loop", mediaLoops |-> 0,
   wire |-> <<>>, closes |-> 0, ev |-> NoFtlEvent]

\* The connHandler the server builds for a connection (part_001 lines 82-86).
\* videoJoyCodec before a sequence header has been received, and what a
\* callback or a step of the sampler returned.
NoCodec == [SPS |-> <<>>, PPS |-> <<>>]
NoRtmpEvent ==
  [op |-> "none", ret |-> "none", cause |-> "none", frameType |-> "none", header |-> FALSE,
   nalus |-> <<>>, codec |-> NoCodec, wasErrored |-> FALSE, produced |-> 0,
   failedRun |-> 0, wasAuthenticated |-> FALSE, inflight |-> 0, buffered |-> 0,
   pcm |-> 0, offsets |-> <<>>, packets |-> 0, counted |-> 0, calls |-> <<>>,
   name |-> "", key |-> ""]

\* loaded and adding belong to a callback that is inside h.outputBytes += n;
\* produced, failedRun, stopCalls, stopChannel, closes and media count what
\* has happened: the bytes output since the sampler's latest tick, the ticks
\* in a row whose delivery failed, the StopStream calls and their channel,
\* the OnClose and the media callbacks.  audioBuffer is the length of
\* h.audioBuffer.  calm says that no sampling window so far has had
\* BANDWIDTH_LIMIT bytes of output, the bytes of a callback that was adding
\* them when the window ended counted in that window as well as in the next.
NewConnHandler ==
  [pc |-> "new", channelID |-> 0, started |-> FALSE, authenticated |-> FALSE,
   errored |-> FALSE, metadataFailures |-> 0, outputBytes |-> 0,
   stopMetadataCollection |-> 0, sampler |-> "none",
   videoJoyCodec |-> NoCodec, outBuf |-> <<>>, lastFullFrame |-> <<>>,
   audioBuffer |-> 0, audioPackets |-> 0, videoPackets |-> 0, calm |-> TRUE,
   loaded |-> 0, adding |-> 0, produced |-> 0, failedRun |-> 0, startOk |-> FALSE,
   stopCalls |-> 0, stopChannel |-> 0, closes |-> 0, media |-> 0,
   ev |-> NoRtmpEvent]

\* Control.New: both maps empty; no goroutine has been started.
Init ==
  /\ streams = [c \in Channels |-> 0]
  /\ metadataCollectors = [c \in Channels |-> 0]
  /\ obj = [i \in Objs |-> BlankObj]
  /\ task = [t \in Tasks |-> IF Kind(t) = "conn" THEN BlankTask ELSE NoTask]
  /\ sdIter = NoIter
  /\ proc = "running"
  /\ last = NoEvent
  /\ ftl = NewFtlConnection
  /\ rtmp = NewConnHandler

\* --------------------------------------------------------- registry helpers
Running == proc = "running"
SdActive == task[Sd].pc # "none"

\* getStream: the lookup fails iff the channel has no entry (lines 361-366).
GetStreamFailsMut(c) == FALSE
GetStreamFails(c) == streams[c] = 0

\* newStream's test `if _, exists := mgr.streams[channelID]; exists`.
NewStreamExists(c) == streams[c] # 0

\* removeStream's deletes, by key (lines 355-356).
RemoveStreamMut(m, c) == m
RemoveStream(m, c) == [m EXCEPT ![c] = 0]

\* The range in Shutdown: a key removed before it is reached is not produced,
\* a key created during the iteration may be produced or skipped.
IterAfterInsert(c) ==
  IF SdActive /\ streams[c] = 0
  THEN [sdIter EXCEPT !.optional = @ \cup {c}]
  ELSE sdIter
IterAfterDelete(c) ==
  [sdIter EXCEPT !.pending = @ \ {c}, !.optional = @ \ {c}]

\* Whether anything still refers to Stream object i in the state (s, m, tk, it).
Referenced(i, s, m, tk, it) ==
  \/ \E c \in Channels : s[c] = i \/ m[c] = i \/ it.snap[c] = i
  \/ \E t \in Tasks : tk[t].own = i \/ tk[t].st = i
  \/ tk[Hb(i)].pc \notin {"none", "done"}
  \/ tk[Pv(i)].pc \notin {"none", "done"}

\* The Stream objects made so far, and the next one newStream makes.
Made == Cardinality({i \in Objs : obj[i] # BlankObj})
Free(i) == obj[i] = BlankObj
FreeId == CHOOSE i \in Objs : Free(i) /\ \A j \in Objs : Free(j) => i <= j

\* The state a step works on, and its result with the garbage collected.
Cur ==
  [s |-> streams, m |-> metadataCollectors, o |-> obj, tk |-> task, it |-> sdIter,
   ev |-> NoEvent]
Commit(x) ==
  /\ streams' = x.s
  /\ metadataCollectors' = x.m
  /\ obj' = [i \in Objs |->
       IF Referenced(i, x.s, x.m, x.tk, x.it) \/ x.o[i] = BlankObj THEN x.o[i] ELSE DeadObj]
  /\ task' = x.tk
  /\ sdIter' = x.it
  /\ last' = x.ev
  /\ UNCHANGED proc
  /\ UNCHANGED ingestVars

\* -------------------------------------------------------- Control.StopStream
\* What the caller of StopStream does when the call returns res: a connection
\* gets the result, StartStream returns the orchestrator's error (line 121),
\* the heartbeat and the preview goroutine end (lines 227-229, 132-134),
\* Shutdown goes on with its range (line 56).
AfterStop(x, t, r, res) ==
  [x EXCEPT
     !.tk[t] = IF r.op \in {"hb", "pv"} THEN DoneTask
               ELSE IF r.op = "sd" THEN [BlankTask EXCEPT !.pc = "sd_iter", !.op = "sd"]
               ELSE BlankTask,
     !.ev = Event(t, r, IF r.op = "start" THEN "err_orch" ELSE res)]

\* StopStream's getStream (lines 140-143): not found returns at once; found
\* goes on to the stop signals with the Stream it looked up.
StopBegin(x, t, r, c) ==
  LET o2 == [i \in Objs |->
               IF x.o[i].ch = c THEN [x.o[i] EXCEPT !.live = FALSE] ELSE x.o[i]]
      y == [x EXCEPT !.o = o2]
  IN IF GetStreamFails(c)
     THEN AfterStop(y, t, [r EXCEPT !.ch = c], "err_notfound")
     ELSE [y EXCEPT !.tk[t] = [r EXCEPT !.pc = "sendHB", !.ch = c, !.st = streams[c]]]

\* A connection calls StopStream(c) (part_001 OnClose, part_002 Close).
StopStream(t, c) ==
  /\ Running
  /\ task[t].pc = "idle"
  /\ Commit(StopBegin(Cur, t, [BlankTask EXCEPT !.op = "stop"], c))

\* A send on a buffered chan that holds n values proceeds when there is room.
CanSendMut(n, cap) == TRUE
CanSend(n, cap) == n < cap

\* stream.stopHeartbeat <- true; stream.stopPeersnap <- true (lines 149-150).
\* Nothing receives from stopHeartbeat, so the first send fills its buffer and
\* every later one on the same Stream blocks; the send on stopPeersnap is only
\* reached by that first sender and finds its buffer empty.
SendStop(t) ==
  LET r == task[t] IN
  /\ Running
  /\ r.pc = "sendHB"
  /\ CanSend(obj[r.st].stopHeartbeat, StopChanCap)
  /\ CanSend(obj[r.st].stopPeersnap, StopChanCap)
  /\ Commit([Cur EXCEPT !.o[r.st].stopHeartbeat = @ + 1,
                        !.o[r.st].stopPeersnap = @ + 1,
                        !.tk[t] = [r EXCEPT !.pc = "sendMC",
                                            !.calls = @ \cup {"stopHeartbeat", "stopPeersnap"}]])

\* mgr.metadataCollectors[channelID] <- true (line 151): the chan is looked up
\* now; a missing entry yields a nil chan, and a send on it blocks forever.
SendMC(t) ==
  LET r == task[t]
      chan == metadataCollectors[r.ch]
  IN /\ Running
     /\ r.pc = "sendMC"
     /\ chan # 0
     /\ CanSend(obj[chan].mc, CollectorChanCap)
     /\ Commit([Cur EXCEPT !.o[chan].mc = @ + 1,
                           !.tk[t] = [r EXCEPT !.pc = "finish",
                                               !.calls = @ \cup {"metadataCollectors"}]])

\* The error StopStream returns (lines 161-174): the first one of the three.
StopResult(serviceErr, orchestratorErr, controlErr) ==
  IF serviceErr THEN "err_service"
  ELSE IF orchestratorErr THEN "err_orchestrator"
  ELSE IF controlErr THEN "err_control"
  ELSE "ok"

\* What StopStream attempts after the signals (lines 154-156).
StopAttemptsMut(serviceErr, orchestratorErr) ==
  IF serviceErr THEN {"service.EndStream"}
  ELSE IF orchestratorErr THEN {"service.EndStream", "orchestrator.StopStream"}
  ELSE {"service.EndStream", "orchestrator.StopStream", "removeStream"}
StopAttempts(serviceErr, orchestratorErr) ==
  {"service.EndStream", "orchestrator.StopStream", "removeStream"}

\* Lines 154-174: EndStream, orchestrator.StopStream, removeStream, cancel,
\* and the return of the first error.
StopFinish(t) ==
  LET r == task[t] IN
  /\ Running
  /\ r.pc = "finish"
  /\ \E serviceErr \in BOOLEAN, orchestratorErr \in BOOLEAN :
       LET att == StopAttempts(serviceErr, orchestratorErr)
           rem == "removeStream" \in att
           r2 == [r EXCEPT !.calls = @ \cup att]
           x == [Cur EXCEPT
                   !.o[r.st].endCalls = IF "service.EndStream" \in att /\ @ < 2 THEN @ + 1 ELSE @,
                   !.o[r.st].cancelled = TRUE,
                   !.s = IF rem THEN RemoveStream(streams, r.ch) ELSE @,
                   !.m = IF rem THEN RemoveStream(metadataCollectors, r.ch) ELSE @,
                   !.it = IF rem THEN IterAfterDelete(r.ch) ELSE @]
           y == AfterStop(x, t, r2,
                          StopResult(serviceErr, orchestratorErr, GetStreamFails(r.ch)))
       IN Commit([y EXCEPT !.ev.ended = x.o[r.st].endCalls])

\* ------------------------------------------------------- Control.StartStream
\* newStream up to its existence check (lines 320-343).
StartStream(t, c) ==
  LET r == [BlankTask EXCEPT !.op = "start", !.ch = c] IN
  /\ Running
  /\ task[t].pc = "idle"
  /\ IF NewStreamExists(c)
     THEN Commit([Cur EXCEPT !.ev = Event(t, r, "err_exists")])
     ELSE /\ \E i \in Objs : Free(i)
          /\ Commit([Cur EXCEPT !.o[FreeId] = [BlankObj EXCEPT !.ch = c],
                                !.tk[t] = [r EXCEPT !.pc = "ns_insert", !.own = FreeId]])

\* newStream's two map writes (lines 344-345).
NewStreamInsert(t) ==
  LET r == task[t] IN
  /\ Running
  /\ r.pc = "ns_insert"
  /\ Commit([Cur EXCEPT !.s[r.ch] = r.own, !.m[r.ch] = r.own,
                        !.it = IterAfterInsert(r.ch),
                        !.tk[t] = [r EXCEPT !.pc = "svc_start"]])

\* service.StartStream (line 110); on failure removeStream and return (112-113).
SvcStart(t) ==
  LET r == task[t]
      r2 == [r EXCEPT !.calls = @ \cup {"service.StartStream"}]
  IN /\ Running
     /\ r.pc = "svc_start"
     /\ \/ Commit([Cur EXCEPT !.o[r.own].StreamID = r.own,
                              !.tk[t] = [r2 EXCEPT !.pc = "orch_start"]])
        \/ Commit([Cur EXCEPT !.s = RemoveStream(streams, r.ch),
                              !.m = RemoveStream(metadataCollectors, r.ch),
                              !.it = IterAfterDelete(r.ch),
                              !.tk[t] = BlankTask,
                              !.ev = Event(t, [r2 EXCEPT !.calls = @ \cup {"removeStream"}],
                                           "err_service")])

\* orchestrator.StartStream (line 118); on failure StopStream (120), else the
\* heartbeat and the preview goroutine are started and the Stream is returned.
OrchStart(t) ==
  LET r == task[t]
      r2 == [r EXCEPT !.calls = @ \cup {"orchestrator.StartStream"}]
  IN /\ Running
     /\ r.pc = "orch_start"
     /\ \/ Commit([Cur EXCEPT !.o[r.own].started = TRUE, !.o[r.own].live = TRUE,
                              !.tk[t] = BlankTask,
                              !.tk[Hb(r.own)] = [NoTask EXCEPT !.pc = "hb_init", !.op = "hb",
                                                               !.ch = r.ch],
                              !.tk[Pv(r.own)] = [NoTask EXCEPT !.pc = "pv_run", !.op = "pv",
                                                               !.ch = r.ch, !.own = r.own],
                              !.ev = Event(t, r2, "ok")])
        \/ Commit(StopBegin(Cur, t, [r2 EXCEPT !.pc = "stop_get"], r.ch))

\* ---------------------------------------------------- Control.setupHeartbeat
\* The goroutine of line 183 up to its first select: getStream (186-189), then
\* the select evaluates mgr.metadataCollectors[channelID] (nil when missing).
HbInit(id) ==
  LET t == Hb(id)
      r == task[t]
  IN /\ Running
     /\ r.pc = "hb_init"
     /\ IF GetStreamFails(r.ch)
        THEN Commit([Cur EXCEPT !.tk[t] = DoneTask])
        ELSE Commit([Cur EXCEPT !.tk[t] = [r EXCEPT !.pc = "hb_select",
                                                    !.st = metadataCollectors[r.ch]]])

\* hasErrors after the three calls of a tick (lines 196-214).
TickHasErrors(thumbnailErr, metadataErr, heartbeatErr) ==
  thumbnailErr \/ metadataErr \/ heartbeatErr

\* Lines 216-222.
TickCountMut(tickFailed, hasErrors) == IF hasErrors THEN tickFailed + 1 ELSE 0
TickCount(tickFailed, hasErrors) ==
  IF hasErrors THEN tickFailed + 1
  ELSE IF tickFailed > 0 THEN tickFailed - 1 ELSE tickFailed

\* Line 225.
TickStopsMut(tickFailed) == tickFailed > HeartbeatThreshold
TickStops(tickFailed) == tickFailed >= HeartbeatThreshold

\* The calls a tick makes (lines 198, 204, 210): each result is tested on its
\* own and none of the tests returns or breaks.
TickAttemptsMut(thumbnailErr, metadataErr) ==
  IF thumbnailErr THEN {"sendThumbnail"}
  ELSE IF metadataErr THEN {"sendThumbnail", "sendMetadata"}
  ELSE {"sendThumbnail", "sendMetadata", "orchestrator.Heartbeat"}
TickAttempts(thumbnailErr, metadataErr) ==
  {"sendThumbnail", "sendMetadata", "orchestrator.Heartbeat"}

\* The loop of sendThumbnail (lines 272-276) on queue q: it receives while
\* the queue has items and keeps the last one received (0: none).  A preview
\* queued while the loop runs is received as well, so the loop is the same as
\* one that takes the whole queue at its last test.
DrainMut(q) ==
  IF q = <<>> THEN [data |-> 0, rest |-> <<>>] ELSE [data |-> Head(q), rest |-> Tail(q)]
Drain(q) ==
  IF q = <<>> THEN [data |-> 0, rest |-> <<>>] ELSE [data |-> q[Len(q)], rest |-> <<>>]

\* How sendThumbnail (lines 266-317) ends: getStream fails (268-270), nothing
\* was queued (278-280), the decoder or the JPEG encoder fails (283-291,
\* 298-303), the decoder has no picture (292-295), or
\* service.SendJpegPreviewImage is called and fails or not (305-308).
PreviewOutcomes(found, data) ==
  IF ~found THEN {"notfound"}
  ELSE IF data = 0 THEN {"empty"}
  ELSE {"codec_err", "nil_img", "send_err", "sent"}
PreviewErr(outcome) == outcome \in {"notfound", "codec_err", "send_err"}
PreviewCalls(outcome, data) == IF outcome \in {"send_err", "sent"} THEN <<data>> ELSE <<>>

\* case <-ticker.C (lines 193-230).  sendMetadata fails when getStream does;
\* otherwise it and orchestrator.Heartbeat may fail or not.  With rec the
\* tick is appended to the goroutine's history, with note the step reports
\* the tick as its event.
HbTick(id, rec, note) ==
  LET t == Hb(id)
      r == task[t]
  IN /\ Running
     /\ r.pc = "hb_select"
     /\ rec => Len(r.ticks) < MaxTicks
     /\ \E metadataErr \in BOOLEAN, heartbeatErr \in BOOLEAN,
           outcome \in PreviewOutcomes(~GetStreamFails(r.ch),
                                       IF GetStreamFails(r.ch) THEN 0
                                       ELSE Drain(obj[streams[r.ch]].lastThumbnail).data) :
          /\ GetStreamFails(r.ch) => metadataErr
          /\ LET found == ~GetStreamFails(r.ch)
                 s == streams[r.ch]
                 q == IF found THEN obj[s].lastThumbnail ELSE <<>>
                 d == Drain(q)
                 thumbnailErr == PreviewErr(outcome)
                 att == TickAttempts(thumbnailErr, metadataErr)
                 errs == att \cap ((IF thumbnailErr THEN {"sendThumbnail"} ELSE {})
                                   \cup (IF metadataErr THEN {"sendMetadata"} ELSE {})
                                   \cup (IF heartbeatErr THEN {"orchestrator.Heartbeat"} ELSE {}))
                 hasErrors == TickHasErrors("sendThumbnail" \in errs, "sendMetadata" \in errs,
                                            "orchestrator.Heartbeat" \in errs)
                 n == TickCount(r.tickFailed, hasErrors)
                 r2 == [r EXCEPT !.tickFailed = n,
                                 !.ticks = IF rec
                                           THEN Append(@, [failed |-> hasErrors,
                                                           before |-> r.tickFailed,
                                                           after |-> n])
                                           ELSE @]
                 e == [Event(t, [r EXCEPT !.op = "tick", !.calls = att], "ticked") EXCEPT
                         !.errs = errs, !.before = r.tickFailed, !.after = n,
                         !.stopped = obj[id].cancelled,
                         !.st = IF found THEN s ELSE 0,
                         !.queued = q,
                         !.drained = IF found THEN obj[s].drained ELSE 0,
                         !.delivered = PreviewCalls(outcome, d.data),
                         !.left = d.rest]
                 x0 == IF found /\ q # <<>>
                       THEN [Cur EXCEPT !.o[s].lastThumbnail = d.rest,
                                        !.o[s].drained = q[Len(q) - Len(d.rest)]]
                       ELSE Cur
                 x == IF note THEN [x0 EXCEPT !.ev = e] ELSE x0
             IN IF TickStops(n)
                THEN Commit(StopBegin(x, t, [r2 EXCEPT !.st = 0], r.ch))
                ELSE Commit([x EXCEPT !.tk[t] = [r2 EXCEPT
                                                   !.st = metadataCollectors[r.ch]]])

\* case <-mgr.metadataCollectors[channelID] (lines 232-234), on the chan the
\* select was entered with.
HbStopSignal(id) ==
  LET t == Hb(id)
      r == task[t]
  IN /\ Running
     /\ r.pc = "hb_select"
     /\ r.st # 0
     /\ obj[r.st].mc > 0
     /\ Commit([Cur EXCEPT !.o[r.st].mc = @ - 1, !.tk[t] = DoneTask])

\* ------------------------------------------ the preview goroutine (128-134)
\* stream.thumbnailer returns an error: StopStream (line 132).
PvError(id) ==
  LET t == Pv(id)
      r == task[t]
  IN /\ Running
     /\ r.pc = "pv_run"
     /\ Commit(StopBegin(Cur, t, r, r.ch))

\* stream.thumbnailer queues a preview on stream.lastThumbnail.
PvFrame(id) ==
  LET t == Pv(id)
      r == task[t]
  IN /\ Running
     /\ r.pc = "pv_run"
     /\ obj[r.own].frames < MaxFrames
     /\ Len(obj[r.own].lastThumbnail) < ThumbnailCap
     /\ Commit([Cur EXCEPT !.o[r.own].frames = @ + 1,
                           !.o[r.own].lastThumbnail = Append(@, obj[r.own].frames + 1)])

\* stream.thumbnailer receives from stream.stopPeersnap and returns nil.
PvStopped(id) ==
  LET t == Pv(id)
      r == task[t]
  IN /\ Running
     /\ r.pc = "pv_run"
     /\ obj[r.own].stopPeersnap > 0
     /\ Commit([Cur EXCEPT !.o[r.own].stopPeersnap = @ - 1, !.tk[t] = DoneTask])

\* ---------------------------------------------------------- Control.Shutdown
\* Shutdown is called (main.go 154-161) and its range begins (line 56).
SdBegin ==
  /\ Running
  /\ task[Sd].pc = "none"
  /\ Commit([Cur EXCEPT
       !.tk[Sd] = [BlankTask EXCEPT !.pc = "sd_iter", !.op = "sd"],
       !.it = [pending |-> {c \in Channels : streams[c] # 0}, optional |-> {},
               snap |-> streams, stopped |-> {}]])

\* The range produces a key and the body calls StopStream with it (line 57).
SdNext ==
  LET r == task[Sd] IN
  /\ Running
  /\ r.pc = "sd_iter"
  /\ \E c \in sdIter.pending \cup sdIter.optional :
       Commit(StopBegin([Cur EXCEPT !.it.pending = @ \ {c}, !.it.optional = @ \ {c},
                                    !.it.stopped = @ \cup {c}],
                        Sd, r, c))

\* The range is exhausted: Shutdown returns and the process exits.
SdReturn ==
  /\ Running
  /\ task[Sd].pc = "sd_iter"
  /\ sdIter.pending = {}
  /\ streams' = streams
  /\ metadataCollectors' = metadataCollectors
  /\ obj' = obj
  /\ task' = task
  /\ sdIter' = sdIter
  /\ last' = Event(Sd, task[Sd], "returned")
  /\ proc' = "exited"
  /\ UNCHANGED ingestVars

\* --------------------------------------------------------- Control.GetTracks
\* Lines 72-79: the looked-up Stream's tracks as they are.
GetTracks(t, c) ==
  LET r == [BlankTask EXCEPT !.op = "gettracks", !.ch = c] IN
  /\ Running
  /\ task[t].pc = "idle"
  /\ IF GetStreamFails(c)
     THEN Commit([Cur EXCEPT !.ev = Event(t, r, "err_notfound")])
     ELSE Commit([Cur EXCEPT !.ev = [Event(t, [r EXCEPT !.st = streams[c]], "ok")
                                       EXCEPT !.got = obj[streams[c]].tracks]])

\* Control.AddTrack(channelID, track), which the ingest connection calls once
\* StartStream has returned (part_001 lines 240-241: the video track, then
\* the audio track): the track is added to the Stream registered for c.
AddTrack(c) ==
  /\ Running
  /\ streams[c] # 0
  /\ obj[streams[c]].started
  /\ obj[streams[c]].tracks < 2
  /\ Commit([Cur EXCEPT !.o[streams[c]].tracks = @ + 1])

\* ------------------------------------------------------ Control.Authenticate
\* Lines 90-100.
AuthResultMut(lookupOk, streamKey, actualKey) == IF lookupOk THEN "ok" ELSE "err_lookup"
AuthResult(lookupOk, streamKey, actualKey) ==
  IF ~lookupOk THEN "err_lookup"
  ELSE IF streamKey # actualKey THEN "err_key"
  ELSE "ok"

Authenticate(t, c) ==
  /\ Running
  /\ task[t].pc = "idle"
  /\ \E streamKey \in Keys, lookupOk \in BOOLEAN :
       Commit([Cur EXCEPT !.ev =
         [Event(t, [BlankTask EXCEPT !.op = "authenticate", !.ch = c,
                                     !.calls = {"service.GetHmacKey"}],
                AuthResult(lookupOk, streamKey, ServiceSecret(c)))
            EXCEPT !.key = streamKey, !.lookupOk = lookupOk]])

\* ------------------------------------------------ unsynchronised map access
\* Positions whose next step writes one of the maps, or reads one.
MapWritePcs == {"ns_insert", "svc_start", "finish"}
MapReadPcs == {"sendMC", "hb_init", "hb_select", "sd_iter"}

\* Two goroutines reach the maps together, one of them writing: the runtime
\* may stop the process with "fatal error: concurrent map writes" (or
\* "concurrent map read and map write").  The process and all its memory
\* are gone.
MapRace ==
  /\ Running
  /\ \E t1 \in Tasks, t2 \in Tasks :
       /\ t1 # t2
       /\ task[t1].pc \in MapWritePcs
       /\ task[t2].pc \in MapWritePcs \cup MapReadPcs
  /\ proc' = "fatal"
  /\ streams' = [c \in Channels |-> 0]
  /\ metadataCollectors' = [c \in Channels |-> 0]
  /\ obj' = [i \in Objs |-> BlankObj]
  /\ task' = [t \in Tasks |-> NoTask]
  /\ sdIter' = NoIter
  /\ last' = NoEvent
  /\ UNCHANGED ingestVars

\* ------------------------------------------- the map writes one at a time
\* newStream's write of mgr.streams (line 344) and, as a step of its own, its
\* write of mgr.metadataCollectors (line 345): Control has no lock, and
\* another goroutine can run between the two statements.
NewStreamStreams(t) ==
  LET r == task[t] IN
  /\ Running
  /\ r.pc = "ns_insert"
  /\ Commit([Cur EXCEPT !.s[r.ch] = r.own,
                        !.it = IterAfterInsert(r.ch),
                        !.tk[t] = [r EXCEPT !.pc = "ns_collector"]])
NewStreamCollectors(t) ==
  LET r == task[t] IN
  /\ Running
  /\ r.pc = "ns_collector"
  /\ Commit([Cur EXCEPT !.m[r.ch] = r.own,
                        !.tk[t] = [r EXCEPT !.pc = "svc_start"]])

\* StopStream from line 154 to removeStream's delete from mgr.streams (line
\* 355); when removeStream finds no entry (lines 351-353) it deletes nothing
\* and StopStream goes on to its return.
StopRemoveStreams(t) ==
  LET r == task[t]
      r2 == [r EXCEPT !.calls = @ \cup StopAttempts(FALSE, FALSE)]
      x == [Cur EXCEPT !.o[r.st].endCalls = IF @ < 2 THEN @ + 1 ELSE @]
  IN /\ Running
     /\ r.pc = "finish"
     /\ IF GetStreamFails(r.ch)
        THEN \E serviceErr \in BOOLEAN, orchestratorErr \in BOOLEAN :
               Commit(AfterStop([x EXCEPT !.o[r.st].cancelled = TRUE], t, r2,
                                StopResult(serviceErr, orchestratorErr, TRUE)))
        ELSE Commit([x EXCEPT !.s = RemoveStream(streams, r.ch),
                              !.it = IterAfterDelete(r.ch),
                              !.tk[t] = [r2 EXCEPT !.pc = "rm_collector"]])

\* removeStream's delete from mgr.metadataCollectors (line 356), by key
\* whatever the entry is by now, and the rest of StopStream (lines 159-174).
StopRemoveCollectors(t) ==
  LET r == task[t] IN
  /\ Running
  /\ r.pc = "rm_collector"
  /\ \E serviceErr \in BOOLEAN, orchestratorErr \in BOOLEAN :
       Commit(AfterStop([Cur EXCEPT !.m = RemoveStream(metadataCollectors, r.ch),
                                    !.o[r.st].cancelled = TRUE],
                        t, r, StopResult(serviceErr, orchestratorErr, FALSE)))

\* ------------------------------------------------------------ specifications
Starts(CT, CH) == \E t \in CT : \E c \in CH : StartStream(t, c)
Stops(CT, CH) == \E t \in CT : \E c \in CH : StopStream(t, c)
Calls(CT, CH) == Starts(CT, CH) \/ Stops(CT, CH)
Frames ==
  \E t \in Tasks :
    \/ NewStreamInsert(t)
    \/ SvcStart(t)
    \/ OrchStart(t)
    \/ SendStop(t)
    \/ SendMC(t)
    \/ StopFinish(t)
Statements ==
  \E t \in Tasks :
    \/ NewStreamStreams(t)
    \/ NewStreamCollectors(t)
    \/ SvcStart(t)
    \/ OrchStart(t)
    \/ SendStop(t)
    \/ SendMC(t)
    \/ StopRemoveStreams(t)
    \/ StopRemoveCollectors(t)
Heartbeats == \E id \in Objs : HbInit(id) \/ HbStopSignal(id)
Ticks(R) == \E id \in Objs : HbTick(id, id \in R, FALSE)
TickEvents == \E id \in Objs : HbTick(id, FALSE, TRUE)
TicksOf(I) == \E id \in I : HbTick(id, FALSE, FALSE)
Previews == \E id \in Objs : PvError(id) \/ PvStopped(id)
PreviewFrames(R) == \E id \in R : PvFrame(id)
Shutdown == SdBegin \/ SdNext \/ SdReturn
Tracks(CT, CH) ==
  \/ \E t \in CT : \E c \in CH : GetTracks(t, c)
  \/ \E c \in CH : AddTrack(c)
Auth(CT, CH) == \E t \in CT : \E c \in CH : Authenticate(t, c)

\* The registry under two connections that contend for channel 1: the first
\* publishes on channel 1 and closes, the second publishes on either channel
\* and closes on channel 2.
NextCore ==
  \/ Calls({Conn(1)}, {1})
  \/ Starts({Conn(2)}, Channels)
  \/ Stops({Conn(2)}, {2})
  \/ Frames
  \/ Heartbeats
  \/ MapRace
SpecCore == Init /\ [][NextCore]_vars

\* One connection and the heartbeat of its streams, the ticks of the first
\* one recorded.
NextHB ==
  \/ Made < MaxBeatStreams /\ Starts({Conn(1)}, {1})
  \/ Stops({Conn(1)}, {1})
  \/ Frames
  \/ Heartbeats
  \/ Ticks({1})
SpecHB == Init /\ [][NextHB]_vars

\* An ingest connection, the preview goroutine and an egress consumer.
NextTracks ==
  \/ Calls({Conn(1)}, {1})
  \/ Frames
  \/ Heartbeats
  \/ Previews
  \/ Tracks({Conn(2)}, {1})
SpecTracks == Init /\ [][NextTracks]_vars

\* Shutdown while a connection is still served.
NextShutdown ==
  \/ Calls({Conn(1)}, Channels)
  \/ Frames
  \/ Heartbeats
  \/ Shutdown
SpecShutdown == Init /\ [][NextShutdown]_vars

\* One connection and the heartbeat of its streams, every tick reported.
NextBeat ==
  \/ Calls({Conn(1)}, {1})
  \/ Frames
  \/ Heartbeats
  \/ TickEvents
SpecBeat == Init /\ [][NextBeat]_vars

\* The streams of one connection with their heartbeats and the previews the
\* preview goroutine of the first one queues, every tick reported.
NextPreview ==
  \/ Made < MaxBeatStreams /\ Starts({Conn(1)}, {1})
  \/ Stops({Conn(1)}, {1})
  \/ Frames
  \/ Heartbeats
  \/ TickEvents
  \/ PreviewFrames({1})
SpecPreview == Init /\ [][NextPreview]_vars

\* Every trigger of a stop: the connection, the rollback of a start, the
\* heartbeat's threshold, the preview goroutine and Shutdown.  The heartbeat
\* of the first Stream is the one whose ticker fires.
NextStops ==
  \/ Made < MaxBeatStreams /\ Starts({Conn(1)}, {1})
  \/ Stops({Conn(1)}, {1})
  \/ Frames
  \/ Heartbeats
  \/ TicksOf({1})
  \/ Previews
  \/ Shutdown
SpecStops == Init /\ [][NextStops]_vars

\* Authenticate next to a connection that starts and stops a stream.
NextAuth ==
  \/ Calls({Conn(1)}, {1})
  \/ Frames
  \/ Heartbeats
  \/ Auth({Conn(2)}, Channels)
SpecAuth == Init /\ [][NextAuth]_vars

\* Two connections that publish on channel 1 and close, with newStream and
\* removeStream taken one map write at a time.
NextRegistry ==
  \/ Calls({Conn(1), Conn(2)}, {1})
  \/ Statements
  \/ Heartbeats
SpecRegistry == Init /\ [][NextRegistry]_vars

\* ============================================ the handshake dialect (part_002)
\* encoding/hex as the connection uses it: EncodeToString writes lower-case
\* digits, DecodeString accepts both cases and fails on an odd length or on
\* any other character.
HexDigits == <<"0", "1", "2", "3", "4", "5", "6", "7", "8", "9", "a", "b", "c", "d", "e", "f">>
UpperDigits == <<"A", "B", "C", "D", "E", "F">>
FromHexChar(ch) ==
  IF \E i \in 1..16 : HexDigits[i] = ch THEN (CHOOSE i \in 1..16 : HexDigits[i] = ch) - 1
  ELSE IF \E i \in 1..6 : UpperDigits[i] = ch THEN (CHOOSE i \in 1..6 : UpperDigits[i] = ch) + 9
  ELSE -1
EncodeToString(b) ==
  [i \in 1..(2 * Len(b)) |->
     IF i % 2 = 1 THEN HexDigits[(b[(i + 1) \div 2] \div 16) + 1]
     ELSE HexDigits[(b[i \div 2] % 16) + 1]]
DecodeString(s) ==
  IF Len(s) % 2 = 1 \/ \E i \in 1..Len(s) : FromHexChar(s[i]) = -1
  THEN [ok |-> FALSE, bytes |-> <<>>]
  ELSE [ok |-> TRUE,
        bytes |-> [i \in 1..(Len(s) \div 2) |->
                     16 * FromHexChar(s[2 * i - 1]) + FromHexChar(s[2 * i])]]

\* The nonces rand.Read can produce (line 243), one byte each here, and
\* hmac.New(sha512.New, key) over a payload (lines 292-294): a keyed digest,
\* two bytes here, different for every key and payload of the model.
NonceBytes == {<<1>>, <<2>>}
KeyCode(key) == IF key = "k1" THEN 1 ELSE 2
PayloadCode(p) == IF p = <<>> THEN 0 ELSE p[1] % 3
HmacSum(key, p) ==
  <<(17 * KeyCode(key) + 3 * PayloadCode(p)) % 256,
    (29 * KeyCode(key) + 101 * PayloadCode(p) + 7) % 256>>

\* hmac.Equal (line 304): equal lengths and equal bytes.
HmacEqualMut(a, b) == Len(a) = Len(b) /\ a[1] = b[1]
HmacEqual(a, b) == a = b

\* strconv.Atoi of the channel argument (line 276): 0 stands for an error.
ChannelArgs == {"1", "2", "x"}
Atoi(str) == IF str = "1" THEN 1 ELSE IF str = "2" THEN 2 ELSE 0

\* What the server writes to the control transport.
Response(msg, hex, port) == [msg |-> msg, hex |-> hex, port |-> port]

\* SendMessage (lines 196-201): the message is written to the transport; w
\* says whether the write succeeds.
SendMessage(f, m, w) == IF w THEN [f EXCEPT !.wire = Append(@, m)] ELSE f

\* Close (lines 203-215).
Close(f) ==
  [f EXCEPT !.transport = "closed",
            !.connected = FALSE,
            !.sockets = IF f.mediaConnected THEN @ \ {f.mediaTransport} ELSE @,
            !.mediaConnected = FALSE,
            !.closes = @ + 1]

FtlEvent(op, ret, cause) == [NoFtlEvent EXCEPT !.op = op, !.ret = ret, !.cause = cause]

\* The read goroutine after ProcessCommand returned (lines 185-187 and
\* 111-115): an error ends eternalRead, Serve's goroutine closes the
\* connection and returns; otherwise the scanner goes on.
ServeReturn(f, e) ==
  IF e.ret = "ok"
  THEN [f EXCEPT !.ev = e]
  ELSE [Close(f) EXCEPT !.reader = "done", !.ev = e]

FtlStep(g) ==
  /\ ftl' = g
  /\ UNCHANGED controlVars
  /\ UNCHANGED rtmp

\* A line can be read: the goroutine is in the scanner and the transport is open.
CanRead == ftl.reader = "scan" /\ ftl.transport = "open"

\* Serve's loop calls eternalRead (line 111): closed already gives ErrClosed
\* (lines 170-172), otherwise a new scanner is made on the transport.
EternalReadEnter ==
  /\ ftl.reader = "loop"
  /\ FtlStep(IF ~ftl.connected
             THEN ServeReturn(ftl, FtlEvent("read", "err", "ErrClosed"))
             ELSE [ftl EXCEPT !.reader = "scan", !.ev = NoFtlEvent])

\* The scanner finds no further line (end of stream, or a read error that
\* line 190 only logs): eternalRead returns nil (line 193) and Serve's loop
\* goes round.
EternalReadEnd ==
  /\ ftl.reader = "scan"
  /\ ftl.transport # "open"
  /\ FtlStep([ftl EXCEPT !.reader = "loop", !.ev = NoFtlEvent])

\* The peer closes the control transport without sending DISCONNECT.
PeerClose ==
  /\ ftl.transport = "open"
  /\ FtlStep([ftl EXCEPT !.transport = "eof", !.ev = NoFtlEvent])

\* HMAC (lines 237-248): a fresh nonce replaces hmacPayload and is sent.
\* n is what rand.Read produces; the event keeps it next to what the
\* connection held before.
ChallengeNonceMut(f, n) == IF f.issued THEN f.hmacPayload ELSE n
ChallengeNonce(f, n) == n
processHmacCommand(f, n, w) ==
  LET f1 == [f EXCEPT !.hmacPayload = ChallengeNonce(f, n), !.issued = TRUE]
      f2 == SendMessage(f1, Response("200", EncodeToString(f1.hmacPayload), 0), w)
      e == [FtlEvent("hmac", IF w THEN "ok" ELSE "err", "none")
              EXCEPT !.hex = EncodeToString(n), !.nonce = f.hmacPayload,
                     !.issued = f.issued, !.wireBefore = f.wire]
  IN ServeReturn(f2, e)
ProcessHmacCommand(N) ==
  /\ CanRead
  /\ Len(ftl.wire) < MaxWire
  /\ \E n \in N, w \in BOOLEAN : FtlStep(processHmacCommand(ftl, n, w))

\* PING (lines 388-390) and DISCONNECT (lines 250-254, then the Close of
\* line 113 if the first one returned an error).
processPingCommand(f, w) ==
  ServeReturn(SendMessage(f, Response("PONG", <<>>, 0), w),
              FtlEvent("ping", IF w THEN "ok" ELSE "err", "none"))
ProcessPingCommand ==
  /\ CanRead
  /\ Len(ftl.wire) < MaxWire
  /\ \E w \in BOOLEAN : FtlStep(processPingCommand(ftl, w))
processDisconnectCommand(f, closeErr) ==
  IF closeErr
  THEN ServeReturn(Close(f), FtlEvent("disconnect", "err", "close"))
  ELSE [Close(f) EXCEPT !.ev = FtlEvent("disconnect", "ok", "none")]
ProcessDisconnectCommand ==
  /\ CanRead
  /\ \E closeErr \in BOOLEAN : FtlStep(processDisconnectCommand(ftl, closeErr))

\* The digests a client may send: the hex of a digest the server can compute,
\* the same with one character replaced, with the last character missing,
\* and the empty string.
FlipChars == {"0", "7", "e", "E", "g"}
ServerDigests == {HmacSum(k, p) : k \in Keys, p \in NonceBytes \cup {<<>>}}
Replaced(s) == {[s EXCEPT ![i] = ch] : i \in 1..Len(s), ch \in FlipChars}
ClientDigests ==
  LET good == {EncodeToString(d) : d \in ServerDigests} IN
  good \cup UNION {Replaced(s) : s \in good}
       \cup {SubSeq(s, 1, Len(s) - 1) : s \in good} \cup {<<>>}

\* CONNECT (lines 256-309).  matched says whether connectRegex found the
\* command's two arguments, channelArg and hmacHashStr are those arguments,
\* onConnectOk and keyOk are the results of handler.OnConnect and
\* handler.GetHmacKey, w that of the write of the OK response.
ConnectCauseMut(f, matched, channelArg, hmacHashStr, onConnectOk, keyOk) ==
  IF ~matched THEN "ErrUnexpectedArguments"
  ELSE IF Atoi(channelArg) = 0 THEN "ErrAtoi"
  ELSE IF ~onConnectOk THEN "OnConnect"
  ELSE IF ~keyOk THEN "GetHmacKey"
  ELSE IF ~DecodeString(hmacHashStr).ok THEN "ErrInvalidHmacHex"
  ELSE IF ~HmacEqual(DecodeString(hmacHashStr).bytes,
                     HmacSum(ServiceSecret(Atoi(channelArg)), f.hmacPayload))
    THEN "ErrInvalidHmacHash"
  ELSE "none"
ConnectCause(f, matched, channelArg, hmacHashStr, onConnectOk, keyOk) ==
  IF f.hmacRequested THEN "ErrMultipleConnect"
  ELSE IF ~matched THEN "ErrUnexpectedArguments"
  ELSE IF Atoi(channelArg) = 0 THEN "ErrAtoi"
  ELSE IF ~onConnectOk THEN "OnConnect"
  ELSE IF ~keyOk THEN "GetHmacKey"
  ELSE IF ~DecodeString(hmacHashStr).ok THEN "ErrInvalidHmacHex"
  ELSE IF ~HmacEqual(DecodeString(hmacHashStr).bytes,
                     HmacSum(ServiceSecret(Atoi(channelArg)), f.hmacPayload))
    THEN "ErrInvalidHmacHash"
  ELSE "none"

\* How far processConnectCommand gets before it returns with the cause.
ConnectStage(cause) ==
  CASE cause = "ErrMultipleConnect" -> 0
    [] cause = "ErrUnexpectedArguments" -> 1
    [] cause = "ErrAtoi" -> 1
    [] cause = "OnConnect" -> 2
    [] cause = "GetHmacKey" -> 3
    [] cause = "ErrInvalidHmacHex" -> 4
    [] OTHER -> 5

\* What processConnectCommand sends before it returns with the cause: the OK
\* response of line 308, and nothing on any return with an error.
ConnectReplyMut(cause) ==
  IF cause = "none" THEN <<Response("200", <<>>, 0)>>
  ELSE IF cause = "ErrInvalidHmacHash" THEN <<Response("400", <<>>, 0)>>
  ELSE <<>>
ConnectReply(cause) == IF cause = "none" THEN <<Response("200", <<>>, 0)>> ELSE <<>>

processConnectCommand(f, matched, channelArg, hmacHashStr, onConnectOk, keyOk, w) ==
  LET cause == ConnectCause(f, matched, channelArg, hmacHashStr, onConnectOk, keyOk)
      n == ConnectStage(cause)
      key == ServiceSecret(Atoi(channelArg))
      f1 == [f EXCEPT
               !.hmacRequested = TRUE,
               !.channelID = IF n >= 2 THEN Atoi(channelArg) ELSE @,
               !.hmacPayload = IF n >= 4 THEN HmacSum(key, f.hmacPayload) ELSE @,
               !.hasAuthenticated = IF n >= 5 THEN TRUE ELSE @,
               !.digestMatched = IF cause = "none" THEN TRUE ELSE @]
      reply == ConnectReply(cause)
      f2 == IF reply # <<>> THEN SendMessage(f1, reply[1], w) ELSE f1
      e == [FtlEvent("connect", IF cause = "none" /\ w THEN "ok" ELSE "err", cause)
              EXCEPT !.matched = matched,
                     !.channelArg = channelArg,
                     !.hex = hmacHashStr,
                     !.nonce = f.hmacPayload,
                     !.issued = f.issued,
                     !.second = f.hmacRequested,
                     !.calls = (IF n >= 2 THEN {"OnConnect"} ELSE {})
                                 \cup (IF n >= 3 THEN {"GetHmacKey"} ELSE {}),
                     !.sent = reply,
                     !.wireBefore = f.wire]
  IN ServeReturn(f2, e)
ProcessConnectCommand(CA, D) ==
  /\ CanRead
  /\ Len(ftl.wire) < MaxWire
  /\ \E matched \in BOOLEAN, channelArg \in CA, hmacHashStr \in D,
        onConnectOk \in BOOLEAN, keyOk \in BOOLEAN, w \in BOOLEAN :
       FtlStep(processConnectCommand(ftl, matched, channelArg, hmacHashStr,
                                     onConnectOk, keyOk, w))

\* An attribute line (lines 311-356).  Only the two payload-type keys are
\* followed; every other key leaves the fields of the model as they are.
\* parseAttributeToUint8 (lines 362-365): ParseUint, 0 on a syntax error, then
\* the conversion to uint8.
AttributeKeys == {"VideoPayloadType", "AudioPayloadType", "VendorName"}
AttributeValues == {"96", "97", "352", "abc"}
ParseUint(input) ==
  CASE input = "96" -> 96
    [] input = "97" -> 97
    [] input = "352" -> 352
    [] OTHER -> 0
ParseAttributeToUint8(input) == ParseUint(input) % 256

\* The test both the attribute line and the terminator begin with (lines
\* 312 and 371).
ConnectBeforeAuthMut(f) == FALSE
ConnectBeforeAuth(f) == ~f.hasAuthenticated

processAttributeCommand(f, key, value) ==
  IF ConnectBeforeAuth(f)
  THEN ServeReturn(f, FtlEvent("attribute", "err", "ErrConnectBeforeAuth"))
  ELSE LET pt == ParseAttributeToUint8(value) IN
       [f EXCEPT
          !.VideoPayloadType = IF key = "VideoPayloadType" THEN pt ELSE @,
          !.videoSet = IF key = "VideoPayloadType" THEN @ \cup {pt} ELSE @,
          !.AudioPayloadType = IF key = "AudioPayloadType" THEN pt ELSE @,
          !.audioSet = IF key = "AudioPayloadType" THEN @ \cup {pt} ELSE @,
          !.ev = FtlEvent("attribute", "ok", "none")]
ProcessAttributeCommand(K, V) ==
  /\ CanRead
  /\ \E key \in K, value \in V : FtlStep(processAttributeCommand(ftl, key, value))

\* The keys the switch of lines 322-353 has a case for.
KnownAttributes ==
  {"ProtocolVersion", "VendorName", "VendorVersion", "Video", "VideoCodec", "VideoHeight",
   "VideoWidth", "VideoPayloadType", "VideoIngestSSRC", "Audio", "AudioCodec",
   "AudioPayloadType", "AudioIngestSSRC"}

\* The ports the system can give to net.ListenUDP(":0").
Ports == {5001, 5002}

\* listenForMedia (lines 415-452) on connection f.  listenOk is the result of
\* net.ListenUDP: on its failure line 422 returns err, which is the nil of
\* ResolveUDPAddr, so the caller sees success and nothing has been set up.
\* tracksOk and onTracksOk are the results of createMediaTracks and
\* handler.OnTracks.  The result is the connection and the error returned.
ListenForMedia(f, listenOk, port, tracksOk, onTracksOk) ==
  IF ~listenOk THEN [f |-> f, err |-> "none"]
  ELSE LET f1 == [f EXCEPT !.assignedMediaPort = port,
                           !.mediaTransport = port,
                           !.sockets = @ \cup {port},
                           !.mediaConnected = TRUE]
       IN IF ~tracksOk THEN [f |-> Close(f1), err |-> "createMediaTracks"]
          ELSE IF ~onTracksOk THEN [f |-> [f1 EXCEPT !.tracks = TRUE], err |-> "OnTracks"]
          ELSE [f |-> [f1 EXCEPT !.tracks = TRUE, !.handed = TRUE, !.mediaLoops = @ + 1],
                err |-> "none"]

\* The terminator line (lines 370-386).
processDotCommand(f, listenOk, port, tracksOk, onTracksOk, onPlayOk, w) ==
  IF ConnectBeforeAuth(f)
  THEN ServeReturn(f, FtlEvent("dot", "err", "ErrConnectBeforeAuth"))
  ELSE LET l == ListenForMedia(f, listenOk, port, tracksOk, onTracksOk)
           reply == Response("200", <<>>, l.f.assignedMediaPort)
           cause == IF l.err # "none" THEN l.err
                    ELSE IF ~onPlayOk THEN "OnPlay"
                    ELSE "none"
           f2 == IF l.err = "none" THEN [l.f EXCEPT !.played = TRUE] ELSE l.f
           f3 == IF cause = "none" THEN SendMessage(f2, reply, w) ELSE f2
           e == [FtlEvent("dot", IF cause = "none" /\ w THEN "ok" ELSE "err", cause)
                   EXCEPT !.listened = listenOk,
                          !.calls = (IF listenOk /\ tracksOk THEN {"OnTracks"} ELSE {})
                                      \cup (IF l.err = "none" THEN {"OnPlay"} ELSE {}),
                          !.sent = IF cause = "none" THEN <<reply>> ELSE <<>>,
                          !.wireBefore = f.wire]
       IN ServeReturn(f3, e)
ProcessDotCommand ==
  /\ CanRead
  /\ Len(ftl.wire) < MaxWire
  /\ ftl.mediaLoops < MaxMediaLoops
  /\ \E listenOk \in BOOLEAN, port \in Ports \ ftl.sockets, tracksOk \in BOOLEAN,
        onTracksOk \in BOOLEAN, onPlayOk \in BOOLEAN, w \in BOOLEAN :
       FtlStep(processDotCommand(ftl, listenOk, port, tracksOk, onTracksOk, onPlayOk, w))

\* strings.Contains.
Contains(str, substr) ==
  \E i \in 1..(Len(str) - Len(substr) + 1) : SubSeq(str, i, i + Len(substr) - 1) = substr

\* attributeRegex on a line with one ": ": the text before it is the key and
\* the text after it the value, both non-empty.
Separator(command) ==
  IF Contains(command, ": ")
  THEN CHOOSE i \in 1..(Len(command) - 1) :
         /\ SubSeq(command, i, i + 1) = ": "
         /\ \A j \in 1..(i - 1) : SubSeq(command, j, j + 1) # ": "
  ELSE 0
AttributeRegexMatch(command) ==
  Separator(command) > 1 /\ Separator(command) + 1 < Len(command)
AttributeKey(command) == SubSeq(command, 1, Separator(command) - 1)
AttributeValue(command) == SubSeq(command, Separator(command) + 2, Len(command))

\* The handler ProcessCommand gives a line to (lines 219-233): the tests are
\* made in this order and the first that holds decides.
HandlerOf(command) ==
  IF command = "HMAC" THEN "hmac"
  ELSE IF Contains(command, "DISCONNECT") THEN "disconnect"
  ELSE IF Contains(command, "CONNECT") THEN "connect"
  ELSE IF Contains(command, "PING") THEN "ping"
  ELSE IF AttributeRegexMatch(command) THEN "attribute"
  ELSE IF command = "." THEN "dot"
  ELSE "unknown"

\* ProcessCommand (lines 217-235) on a line of L that the scanner delivers
\* (line 185), with what the connection was before the line.
ProcessCommand(L) ==
  /\ CanRead
  /\ Len(ftl.wire) < MaxWire
  /\ ftl.mediaLoops < MaxMediaLoops
  /\ \E command \in L, w \in BOOLEAN, ok \in BOOLEAN, n \in NonceBytes,
        matched \in BOOLEAN, port \in Ports \ ftl.sockets :
       LET h == HandlerOf(command)
           g == CASE h = "hmac" -> processHmacCommand(ftl, n, w)
                  [] h = "disconnect" -> processDisconnectCommand(ftl, ~ok)
                  [] h = "connect" ->
                       processConnectCommand(ftl, matched, "1",
                                             EncodeToString(HmacSum("k1", ftl.hmacPayload)),
                                             ok, ok, w)
                  [] h = "ping" -> processPingCommand(ftl, w)
                  [] h = "attribute" ->
                       processAttributeCommand(ftl, AttributeKey(command),
                                               AttributeValue(command))
                  [] h = "dot" -> processDotCommand(ftl, ok, port, ok, ok, ok, w)
                  [] OTHER -> [ftl EXCEPT !.ev = FtlEvent("unknown", "ok", "none")]
       IN FtlStep([g EXCEPT
                     !.ev.line = command,
                     !.ev.wireBefore = ftl.wire,
                     !.ev.before = [hasAuthenticated |-> ftl.hasAuthenticated,
                                    hmacRequested |-> ftl.hmacRequested,
                                    VideoPayloadType |-> ftl.VideoPayloadType,
                                    AudioPayloadType |-> ftl.AudioPayloadType]])

\* The payload types of the datagrams the model sends to the media port.
PayloadTypes == {0, 96, 97, 98}

\* Where eternalMediaRead writes a packet (lines 492-502).
Route(f, pt) ==
  IF pt = f.VideoPayloadType THEN "video"
  ELSE IF pt = f.AudioPayloadType THEN "audio"
  ELSE "none"

\* The media goroutine after eternalMediaRead returned an error (lines
\* 443-447): Close, and the goroutine ends.
MediaReturn(f, e) ==
  IF e.ret = "ok"
  THEN [f EXCEPT !.ev = e]
  ELSE [Close(f) EXCEPT !.mediaLoops = @ - 1, !.ev = e]

\* One round of a media goroutine (lines 474-505): a datagram with payload
\* type pt is read from the media socket; parses says whether it unmarshals
\* as RTP, writeOk is the result of the track's WriteRTP.
EternalMediaRead ==
  /\ ftl.mediaLoops > 0
  /\ IF ~ftl.mediaConnected
     THEN FtlStep(MediaReturn(ftl, FtlEvent("media", "err", "ErrClosed")))
     ELSE \E pt \in PayloadTypes, parses \in BOOLEAN, writeOk \in BOOLEAN :
            LET to == Route(ftl, pt)
                e == IF ~parses THEN FtlEvent("media", "err", "ErrRead")
                     ELSE [FtlEvent("media",
                                    IF to # "none" /\ ~writeOk THEN "err" ELSE "ok",
                                    IF to # "none" /\ ~writeOk THEN "ErrWrite" ELSE "none")
                             EXCEPT !.pt = pt, !.to = to]
            IN FtlStep(MediaReturn(ftl, e))

\* The commands of the handshake up to CONNECT on one connection, with every
\* digest a client may send.
NextHandshake ==
  \/ EternalReadEnter
  \/ EternalReadEnd
  \/ PeerClose
  \/ ProcessHmacCommand(NonceBytes)
  \/ ProcessPingCommand
  \/ ProcessDisconnectCommand
  \/ ProcessConnectCommand(ChannelArgs, ClientDigests)
SpecHandshake == Init /\ [][NextHandshake]_vars

\* A connection that sends CONNECT for channel 1 without asking for a nonce,
\* then attribute lines, the terminator and media datagrams.
MediaDigests == {EncodeToString(HmacSum("k1", <<>>)), EncodeToString(HmacSum("k2", <<>>))}
NextMedia ==
  \/ EternalReadEnter
  \/ EternalReadEnd
  \/ ProcessConnectCommand({"1"}, MediaDigests)
  \/ ProcessAttributeCommand(AttributeKeys, AttributeValues)
  \/ ProcessDotCommand
  \/ EternalMediaRead
SpecMedia == Init /\ [][NextMedia]_vars

\* A connection that is accepted for channel 1 and then sends lines of text:
\* attribute lines with keys the server knows and with keys it does not know,
\* and the one-word commands.
UnknownKeyLines == {"Comment: hello", "Note: PING", "Reason: DISCONNECT", "Mode: RECONNECT"}
Lines == UnknownKeyLines \cup {"VideoPayloadType: 96", "AudioPayloadType: 97", "PING", "?"}
NextLines ==
  \/ EternalReadEnter
  \/ EternalReadEnd
  \/ PeerClose
  \/ ProcessConnectCommand({"1"}, MediaDigests)
  \/ ProcessCommand(Lines)
SpecLines == Init /\ [][NextLines]_vars

\* The same connection when the peer may close the control transport.  The
\* two goroutines of the connection are scheduled fairly: whenever one of them
\* can take a step of its own (enter eternalRead, return from it, find the
\* media socket closed) it eventually does.  Commands and datagrams arrive or
\* not as the peer chooses.
MediaFindsClosed == ~ftl.mediaConnected /\ EternalMediaRead
NextTransport ==
  \/ EternalReadEnter
  \/ EternalReadEnd
  \/ PeerClose
  \/ ProcessConnectCommand({"1"}, MediaDigests)
  \/ ProcessDisconnectCommand
  \/ ProcessDotCommand
  \/ EternalMediaRead
SpecTransport ==
  /\ Init
  /\ [][NextTransport]_vars
  /\ WF_vars(EternalReadEnter)
  /\ WF_vars(EternalReadEnd)
  /\ WF_vars(MediaFindsClosed)

\* ============================================== the message dialect (part_001)
\* h264joy as OnVideo uses it.  A NAL unit is a sequence of bytes.  A video
\* unit carries its NALs one after the other, each behind its length (one
\* byte here); the sequence header carries one SPS and one PPS the same way
\* behind a version byte.
RECURSIVE Flatten(_)
Flatten(ss) == IF ss = <<>> THEN <<>> ELSE Head(ss) \o Flatten(Tail(ss))
Avcc(nalus) == Flatten([i \in 1..Len(nalus) |-> <<Len(nalus[i])>> \o nalus[i]])
DecoderConfig(sps, pps) == <<1>> \o Avcc(<<sps, pps>>)

\* SplitNALUs: the length-prefixed units of data, or data itself as one unit
\* when the lengths do not add up.
RECURSIVE SplitAvcc(_)
SplitAvcc(data) ==
  IF data = <<>> THEN [ok |-> TRUE, nalus |-> <<>>]
  ELSE IF data[1] = 0 \/ data[1] > Len(data) - 1 THEN [ok |-> FALSE, nalus |-> <<>>]
  ELSE LET rest == SplitAvcc(SubSeq(data, data[1] + 2, Len(data))) IN
       [ok |-> rest.ok, nalus |-> <<SubSeq(data, 2, data[1] + 1)>> \o rest.nalus]
SplitNALUs(data) ==
  IF data = <<>> THEN <<>>
  ELSE IF SplitAvcc(data).ok THEN SplitAvcc(data).nalus
  ELSE <<data>>

\* JoinNALUsAnnexb: every unit behind a start code.
StartCode == <<0, 0, 0, 1>>
JoinNALUsAnnexb(nalus) == Flatten([i \in 1..Len(nalus) |-> StartCode \o nalus[i]])

\* FromDecoderConfig (line 407): the parameter sets of a sequence header, or
\* an error.
FromDecoderConfig(data) ==
  IF Len(data) < 1 \/ data[1] # 1 THEN [ok |-> FALSE, codec |-> NoCodec]
  ELSE LET s == SplitAvcc(Tail(data)) IN
       IF ~s.ok \/ Len(s.nalus) # 2 THEN [ok |-> FALSE, codec |-> NoCodec]
       ELSE [ok |-> TRUE, codec |-> [SPS |-> <<s.nalus[1]>>, PPS |-> <<s.nalus[2]>>]]

\* The byte stream OnVideo makes of a unit (lines 413-426): for a key frame
\* the cached SPS and PPS, then the unit's NALs; otherwise the unit's NALs.
ReassembleMut(codec, frameType, data) ==
  JoinNALUsAnnexb(codec.SPS \o codec.PPS \o SplitNALUs(data))
Reassemble(codec, frameType, data) ==
  IF frameType = "key"
  THEN JoinNALUsAnnexb(codec.SPS \o codec.PPS \o SplitNALUs(data))
  ELSE JoinNALUsAnnexb(SplitNALUs(data))

\* The units of the model.
SPSNal == <<103, 66>>
PPSNal == <<104>>
Nalus == {<<101, 1>>, <<65>>, <<6, 2>>}
NaluLists == {<<a>> : a \in Nalus} \cup {<<a, b>> : a \in Nalus, b \in Nalus}
FrameTypes == {"key", "inter"}

RtmpEvent(op, ret, cause) == [NoRtmpEvent EXCEPT !.op = op, !.ret = ret, !.cause = cause]

RtmpStep(g) ==
  /\ rtmp' = g
  /\ UNCHANGED controlVars
  /\ UNCHANGED ftl

\* The connection's goroutine is between two callbacks.
Between == rtmp.pc \in {"new", "connected", "live", "failed", "closed"}

\* OnConnect (lines 168-185).
OnConnect ==
  /\ rtmp.pc = "new"
  /\ RtmpStep([rtmp EXCEPT !.pc = "connected", !.metadataFailures = 0, !.errored = FALSE,
                           !.ev = RtmpEvent("connect", "ok", "none")])

\* OnPublish (lines 192-246).  name is the publishing name, auth and start
\* are the results of Control.Authenticate and Control.StartStream, init
\* tells which of initVideo and initAudio fails.  A name that is a number
\* with no "-" gives a one-element split, and auth[1] (line 207) panics after
\* h.channelID is assigned and before h.started is.  On success the sampler
\* is started (line 243).
PublishNames == {"", "live", "1", "1-k", "2-k-2"}

\* strings.SplitN(s, sep, 2) for a separator of one character (line 199): s is
\* cut at the first sep, and is returned whole when it has none.
SplitN(s, sep) ==
  IF \E i \in 1..Len(s) : SubSeq(s, i, i) = sep
  THEN LET i == CHOOSE k \in 1..Len(s) :
                  /\ SubSeq(s, k, k) = sep
                  /\ \A j \in 1..(k - 1) : SubSeq(s, j, j) # sep
       IN <<SubSeq(s, 1, i - 1), SubSeq(s, i + 1, Len(s))>>
  ELSE <<s>>

\* strconv.ParseUint(str, 10, 32) (line 200) on the short strings of the
\* model: an error unless str is one or more decimal digits.
RECURSIVE DecimalValue(_)
DecimalValue(str) ==
  IF Len(str) = 0 THEN 0
  ELSE 10 * DecimalValue(SubSeq(str, 1, Len(str) - 1))
         + FromHexChar(SubSeq(str, Len(str), Len(str)))
ParseUint32(str) ==
  IF Len(str) > 0 /\ \A i \in 1..Len(str) : FromHexChar(SubSeq(str, i, i)) \in 0..9
  THEN [ok |-> TRUE, val |-> DecimalValue(str)]
  ELSE [ok |-> FALSE, val |-> 0]

\* Why OnPublish does not complete.  "panic" is the index expression auth[1]
\* (line 207) on a name that SplitN returned whole.
PublishCauseMut(name, auth, start, init) ==
  IF name = "" THEN "empty"
  ELSE IF ~ParseUint32(SplitN(name, "-")[1]).ok THEN "ParseUint"
  ELSE IF Len(SplitN(name, "-")) < 2 THEN "panic"
  ELSE IF start # "ok" THEN "StartStream"
  ELSE IF init # "ok" THEN "init"
  ELSE "none"
PublishCause(name, auth, start, init) ==
  IF name = "" THEN "empty"
  ELSE IF ~ParseUint32(SplitN(name, "-")[1]).ok THEN "ParseUint"
  ELSE IF Len(SplitN(name, "-")) < 2 THEN "panic"
  ELSE IF auth # "ok" THEN "Authenticate"
  ELSE IF start # "ok" THEN "StartStream"
  ELSE IF init # "ok" THEN "init"
  ELSE "none"

\* The calls OnPublish makes, in order, each with the channel it is made for
\* and what it returns.
PublishCall(fn, c, ret) == [fn |-> fn, ch |-> c, ret |-> ret]
PublishCalls(cause, c, auth, start, init) ==
  IF cause \in {"empty", "ParseUint", "panic"} THEN <<>>
  ELSE <<PublishCall("Authenticate", c, auth)>> \o
    IF cause = "Authenticate" THEN <<>>
    ELSE <<PublishCall("StartStream", c, start)>> \o
      IF cause = "StartStream" THEN <<>>
      ELSE <<PublishCall("initVideo", c, IF init = "video" THEN "err" ELSE "ok")>> \o
        IF init = "video" THEN <<>>
        ELSE <<PublishCall("initAudio", c, IF init = "audio" THEN "err" ELSE "ok")>> \o
          IF init = "audio" THEN <<>>
          ELSE <<PublishCall("AddTrack", c, "ok"), PublishCall("AddTrack", c, "ok"),
                 PublishCall("setupMetadataCollector", c, "ok")>>

Published(h, name, c, auth, start, init) ==
  LET cause == PublishCause(name, auth, start, init)
      parsed == cause \notin {"empty", "ParseUint"}
      split == parsed /\ cause # "panic"
      startOk == cause \in {"init", "none"}
  IN [h EXCEPT
        !.pc = IF cause = "none" THEN "live" ELSE "failed",
        !.channelID = IF parsed THEN c ELSE @,
        !.started = IF split THEN TRUE ELSE @,
        !.authenticated = IF startOk THEN TRUE ELSE @,
        !.startOk = startOk,
        !.sampler = IF cause = "none" THEN "wait" ELSE @,
        !.ev = [RtmpEvent("publish", IF cause = "none" THEN "ok" ELSE "err", cause)
                  EXCEPT !.calls = PublishCalls(cause, c, auth, start, init),
                         !.name = name,
                         !.key = IF split THEN SplitN(name, "-")[2] ELSE ""]]
OnPublish(CH) ==
  /\ rtmp.pc = "connected"
  /\ \E name \in PublishNames, c \in CH, auth \in {"ok", "err_lookup", "err_key"},
        start \in {"ok", "err_exists", "err_service", "err_orch"},
        init \in {"ok", "video", "audio"} :
       /\ ParseUint32(SplitN(name, "-")[1]).ok => c = ParseUint32(SplitN(name, "-")[1]).val
       /\ RtmpStep(Published(rtmp, name, c, auth, start, init))

\* Whether OnClose reports the stop (line 254).
CloseStopsMut(h) == h.started
CloseStops(h) == h.authenticated

\* OnClose (lines 248-274): the send on stopMetadataCollection (buffer of 1)
\* first, then StopStream for the connection's channel if authenticated.
Closed(h) ==
  [h EXCEPT
     !.pc = "closed",
     !.stopMetadataCollection = @ + 1,
     !.stopCalls = IF CloseStops(h) THEN @ + 1 ELSE @,
     !.stopChannel = IF CloseStops(h) THEN h.channelID ELSE @,
     !.authenticated = FALSE,
     !.started = FALSE,
     !.closes = @ + 1,
     !.ev = [RtmpEvent("close", "ok", "none") EXCEPT !.wasAuthenticated = h.authenticated]]
OnClose ==
  /\ Between
  /\ rtmp.stopMetadataCollection < StopCollectionCap
  /\ RtmpStep(Closed(rtmp))

\* The connection next to the registry its callbacks call: a step of the
\* connection that takes the registry to x and the handler to g.
CommitWith(x, g) ==
  /\ streams' = x.s
  /\ metadataCollectors' = x.m
  /\ obj' = [i \in Objs |->
       IF Referenced(i, x.s, x.m, x.tk, x.it) \/ x.o[i] = BlankObj THEN x.o[i] ELSE DeadObj]
  /\ task' = x.tk
  /\ sdIter' = x.it
  /\ last' = x.ev
  /\ rtmp' = g
  /\ UNCHANGED proc
  /\ UNCHANGED ftl

\* OnPublish with a well-formed name and the right key for a channel that is
\* registered when newStream tests it: newStream returns its error before it
\* writes anything (control.go lines 341-343), StartStream passes it on
\* (104-106) and OnPublish returns it (lines 222-226).
OnPublishTaken(CH) ==
  /\ Running
  /\ rtmp.pc = "connected"
  /\ \E c \in CH, name \in PublishNames :
       /\ Len(SplitN(name, "-")) = 2
       /\ ParseUint32(SplitN(name, "-")[1]) = [ok |-> TRUE, val |-> c]
       /\ NewStreamExists(c)
       /\ CommitWith(Cur, Published(rtmp, name, c, "ok", "err_exists", "ok"))

\* OnClose with its StopStream call (line 257) made on the registry, as the
\* second connection.
OnCloseStop ==
  /\ Running
  /\ Between
  /\ rtmp.stopMetadataCollection < StopCollectionCap
  /\ task[Conn(2)].pc = "idle"
  /\ CommitWith(IF CloseStops(rtmp)
                THEN StopBegin(Cur, Conn(2), [BlankTask EXCEPT !.op = "stop"], rtmp.channelID)
                ELSE Cur,
                Closed(rtmp))

\* The test OnAudio and OnVideo begin with (lines 295-297 and 375-377).
ErroredCheckMut(h) == FALSE
ErroredCheck(h) == h.errored

\* The number of payload bytes the packets of one unit add to outputBytes.
FrameBytes == {3000000, 5000000}

\* OnVideo (lines 374-449) up to the accounting of its packets.  frameType and
\* header are the unit's FrameType and whether it is a sequence header, data
\* its payload, n the payload bytes of its packets (one packet here: the
\* units of the model are shorter than FTL_MTU).  A key frame with no
\* sequence header received before dereferences the nil videoJoyCodec
\* (line 417).  h.outputBytes += n (line 441) is a load, here, and a store,
\* in MediaStore: the sampler goroutine may run in between.
VideoData(header, nalus) == IF header THEN DecoderConfig(SPSNal, PPSNal) ELSE Avcc(nalus)
OnVideo(FT, H, NL) ==
  /\ rtmp.pc = "live"
  /\ rtmp.media < MaxMedia
  /\ \E frameType \in FT, header \in H, nalus \in NL, n \in FrameBytes :
       LET data == VideoData(header, nalus)
           cfg == FromDecoderConfig(data)
           codec == IF header /\ cfg.ok THEN cfg.codec ELSE rtmp.videoJoyCodec
           outBuf == Reassemble(codec, frameType, data)
           e == [RtmpEvent("video", "ok", "none")
                   EXCEPT !.frameType = frameType, !.header = header, !.nalus = nalus,
                          !.codec = codec, !.wasErrored = rtmp.errored]
       IN IF ErroredCheck(rtmp)
          THEN RtmpStep([rtmp EXCEPT !.media = @ + 1,
                                     !.ev = [e EXCEPT !.ret = "err", !.cause = "errored"]])
          ELSE IF header /\ ~cfg.ok
          THEN RtmpStep([rtmp EXCEPT !.media = @ + 1,
                                     !.ev = [e EXCEPT !.ret = "err", !.cause = "config"]])
          ELSE IF frameType = "key" /\ codec = NoCodec
          THEN RtmpStep([rtmp EXCEPT !.pc = "panicked", !.media = @ + 1,
                                     !.ev = [e EXCEPT !.ret = "panic", !.cause = "nil codec"]])
          ELSE RtmpStep([rtmp EXCEPT
                 !.pc = "add",
                 !.media = @ + 1,
                 !.videoJoyCodec = codec,
                 !.outBuf = outBuf,
                 !.lastFullFrame = IF frameType = "key" THEN outBuf ELSE @,
                 !.videoPackets = @ + 1,
                 !.loaded = rtmp.outputBytes,
                 !.adding = n,
                 !.ev = e])

\* The re-chunking loop of OnAudio (lines 328-351) on a buffer of len bytes,
\* pcm already appended: while a whole frame of blockSize*4 bytes is there it
\* is taken from the front (off is its place in the buffer the loop began
\* with), encoded and written as one packet.  failAt is the number of the
\* frame whose Encode or WriteRTP returns an error (0: none does); the loop
\* returns there, before the slice is advanced.
LoopTestMut(len) == len > BlockSize * 4
LoopTest(len) == len >= BlockSize * 4
RECURSIVE Rechunk(_, _, _, _)
Rechunk(len, off, offsets, failAt) ==
  IF LoopTest(len)
  THEN IF Len(offsets) + 1 = failAt
       THEN [left |-> len, offsets |-> offsets, failed |-> TRUE]
       ELSE Rechunk(len - BlockSize * 4, off + BlockSize * 4, Append(offsets, off), failAt)
  ELSE [left |-> len, offsets |-> offsets, failed |-> FALSE]

\* OnAudio (lines 294-355) up to the accounting of its packets: a sequence
\* header or a decode error returns before any output.  pcm is the number of
\* bytes Decode returns, n the payload bytes of the packets of the call.  A
\* WriteRTP that fails has had its packet counted (lines 345-348).
AudioKinds == {"header", "data", "bad"}
OnAudio(PCM, FA) ==
  /\ rtmp.pc = "live"
  /\ rtmp.media < MaxMedia
  /\ \E kind \in AudioKinds, pcm \in PCM, failAt \in FA, failKind \in {"encode", "write"},
        n \in FrameBytes :
       LET e == [RtmpEvent("audio", "ok", "none")
                   EXCEPT !.wasErrored = rtmp.errored, !.buffered = rtmp.audioBuffer,
                          !.counted = rtmp.audioPackets]
           l == Rechunk(rtmp.audioBuffer + pcm, 0, <<>>, failAt)
           packets == Len(l.offsets) + (IF l.failed /\ failKind = "write" THEN 1 ELSE 0)
       IN IF ErroredCheck(rtmp)
          THEN RtmpStep([rtmp EXCEPT !.media = @ + 1,
                                     !.ev = [e EXCEPT !.ret = "err", !.cause = "errored"]])
          ELSE IF kind = "bad"
          THEN RtmpStep([rtmp EXCEPT !.media = @ + 1,
                                     !.ev = [e EXCEPT !.ret = "err", !.cause = "decode"]])
          ELSE IF kind = "header"
          THEN RtmpStep([rtmp EXCEPT !.media = @ + 1, !.ev = [e EXCEPT !.header = TRUE]])
          ELSE RtmpStep([rtmp EXCEPT
                 !.pc = IF packets > 0 THEN "add" ELSE @,
                 !.media = @ + 1,
                 !.audioBuffer = l.left,
                 !.audioPackets = @ + packets,
                 !.loaded = IF packets > 0 THEN rtmp.outputBytes ELSE @,
                 !.adding = IF packets > 0 THEN n ELSE @,
                 !.ev = [e EXCEPT !.ret = IF l.failed THEN "err" ELSE "ok",
                                  !.cause = IF l.failed THEN failKind ELSE "none",
                                  !.pcm = pcm,
                                  !.offsets = l.offsets,
                                  !.packets = packets]])

\* The store of h.outputBytes += n, and the callback returns.  produced is
\* the number of payload bytes output since the sampler's latest tick.
MediaStore ==
  /\ rtmp.pc = "add"
  /\ RtmpStep([rtmp EXCEPT !.pc = "live",
                           !.outputBytes = rtmp.loaded + rtmp.adding,
                           !.produced = @ + rtmp.adding,
                           !.loaded = 0,
                           !.adding = 0,
                           !.ev = NoRtmpEvent])

\* The sampler's tick (lines 514-554) in three steps, the media callbacks of
\* the connection's goroutine running next to it without synchronisation.
\* The bandwidth test (lines 525-528):
OverLimit(outputBytes) == outputBytes >= BANDWIDTH_LIMIT
Inflight(h) == IF h.pc = "add" THEN h.adding ELSE 0
TickCheck ==
  /\ rtmp.sampler = "wait"
  /\ RtmpStep([rtmp EXCEPT
       !.sampler = "reset",
       !.errored = @ \/ OverLimit(rtmp.outputBytes),
       !.produced = 0,
       !.calm = @ /\ rtmp.produced + Inflight(rtmp) < BANDWIDTH_LIMIT,
       !.ev = [RtmpEvent("tick", "ok", "none")
                 EXCEPT !.produced = rtmp.produced,
                        !.wasErrored = rtmp.errored,
                        !.inflight = Inflight(rtmp)]])

\* h.outputBytes = 0 and the other counters (lines 529-536).
TickReset ==
  /\ rtmp.sampler = "reset"
  /\ RtmpStep([rtmp EXCEPT !.sampler = "meta", !.outputBytes = 0, !.ev = NoRtmpEvent])

\* The delivery and its accounting (lines 543-554): the counter after a tick
\* and whether the tick sets errored.
FailuresAfter(failures, delivered) == 0
TickErrors(failures, delivered) == ~delivered /\ failures + 1 > MetadataThreshold
TickMetadata ==
  /\ rtmp.sampler = "meta"
  /\ \E delivered \in BOOLEAN :
       LET run == IF delivered THEN 0
                  ELSE IF rtmp.failedRun > MetadataThreshold THEN rtmp.failedRun
                  ELSE rtmp.failedRun + 1
       IN RtmpStep([rtmp EXCEPT
            !.sampler = "wait",
            !.errored = @ \/ TickErrors(rtmp.metadataFailures, delivered),
            !.metadataFailures = FailuresAfter(rtmp.metadataFailures, delivered),
            !.failedRun = run,
            !.ev = [RtmpEvent("metadata", IF delivered THEN "ok" ELSE "err", "none")
                      EXCEPT !.failedRun = run]])

\* case <-h.stopMetadataCollection (lines 556-558).
SamplerStop ==
  /\ rtmp.sampler = "wait"
  /\ rtmp.stopMetadataCollection > 0
  /\ RtmpStep([rtmp EXCEPT !.sampler = "done", !.stopMetadataCollection = @ - 1,
                           !.ev = NoRtmpEvent])

\* One message-dialect connection with its sampler; every audio unit decodes
\* to one frame.
NextSampler ==
  \/ OnConnect
  \/ OnPublish({1})
  \/ OnVideo({"inter"}, {FALSE}, {<<<<65>>>>})
  \/ OnAudio({BlockSize * 4}, {0})
  \/ MediaStore
  \/ TickCheck
  \/ TickReset
  \/ TickMetadata
  \/ SamplerStop
  \/ OnClose
SpecSampler == Init /\ [][NextSampler]_vars

\* The video units of one connection.
NextVideo ==
  \/ OnConnect
  \/ OnPublish({1})
  \/ OnVideo(FrameTypes, BOOLEAN, NaluLists)
  \/ MediaStore
SpecVideo == Init /\ [][NextVideo]_vars

\* The audio units of one connection: what Decode returns is shorter than a
\* frame, a frame, the 1024 samples of an AAC unit, or two of them.
PcmLens == {0, 1000, BlockSize * 4, 4096, 8192}
FailAts == {0, 1, 2}
NextAudio ==
  \/ OnConnect
  \/ OnPublish({1})
  \/ OnAudio(PcmLens, FailAts)
  \/ MediaStore
SpecAudio == Init /\ [][NextAudio]_vars

\* Publishing on either channel, the sampler it starts and the close.
NextPublish ==
  \/ OnConnect
  \/ OnPublish(Channels)
  \/ TickCheck
  \/ TickReset
  \/ TickMetadata
  \/ SamplerStop
  \/ OnClose
SpecPublish == Init /\ [][NextPublish]_vars

\* A publisher on channel 1 with its Stream and heartbeat, and a message
\* connection that publishes on the channel while it is taken and closes.
NextConflict ==
  \/ Calls({Conn(1)}, {1})
  \/ Frames
  \/ Heartbeats
  \/ OnConnect
  \/ OnPublishTaken({1})
  \/ OnCloseStop
SpecConflict == Init /\ [][NextConflict]_vars

\* Every step of the registry and of the two kinds of ingest connection.
Handshake ==
  \/ EternalReadEnter
  \/ EternalReadEnd
  \/ PeerClose
  \/ ProcessHmacCommand(NonceBytes)
  \/ ProcessPingCommand
  \/ ProcessDisconnectCommand
  \/ ProcessConnectCommand(ChannelArgs, ClientDigests)
  \/ ProcessAttributeCommand(AttributeKeys, AttributeValues)
  \/ ProcessDotCommand
  \/ ProcessCommand(Lines)
  \/ EternalMediaRead
Messages ==
  \/ OnConnect
  \/ OnPublish(Channels)
  \/ OnVideo(FrameTypes, BOOLEAN, NaluLists)
  \/ OnAudio(PcmLens, FailAts)
  \/ MediaStore
  \/ TickCheck
  \/ TickReset
  \/ TickMetadata
  \/ SamplerStop
  \/ OnClose
  \/ OnPublishTaken(Channels)
  \/ OnCloseStop
Next ==
  \/ Calls(ConnTasks, Channels)
  \/ Frames
  \/ Heartbeats
  \/ Ticks({})
  \/ TickEvents
  \/ Previews
  \/ PreviewFrames(Objs)
  \/ Shutdown
  \/ Tracks(ConnTasks, Channels)
  \/ Auth(ConnTasks, Channels)
  \/ MapRace
  \/ Handshake
  \/ Messages

Spec == Init /\ [][Next]_vars

\* ===================================================================== claims
\* A connection's StartStream(c) reaches newStream's existence check in this step.
StartCall(t, c) ==
  /\ task[t].pc = "idle"
  /\ \/ task'[t].pc = "ns_insert" /\ task'[t].ch = c
     \/ last'.t = t /\ last'.op = "start" /\ last'.ch = c /\ last'.ret = "err_exists"

\* The Streams a StartStream(c) returned with no StopStream(c) called since.
LiveAt(c) == {i \in Objs : obj[i].ch = c /\ obj[i].started /\ obj[i].live}

\* C1: if StartStream(c) succeeded and no StopStream(c) has been called since,
\* a further StartStream(c) fails with the conflict error, makes no external
\* call, and leaves the registry as it was, with the Stream of that earlier
\* success still registered for c.
C1_DuplicateStartFails ==
  [][\A t \in ConnTasks, c \in Channels :
       StartCall(t, c) /\ LiveAt(c) # {} =>
         /\ last'.t = t /\ last'.ret = "err_exists" /\ last'.calls = {}
         /\ streams[c] \in LiveAt(c)
         /\ UNCHANGED <<streams, metadataCollectors, obj>>]_vars

\* C2: a registered Stream is never overwritten by another StartStream: an
\* entry of the registry changes only from absent to a Stream or back.
C2_NeverOverwritten ==
  [][\A c \in Channels : streams[c] # 0 => streams'[c] \in {0, streams[c]}]_vars

\* C3: when StartStream returns because service.StartStream or
\* orchestrator.StartStream failed, it returns the error, no Stream is
\* registered for its channel, and the call has started neither the heartbeat
\* nor the preview goroutine of its Stream.
C3_FailedStartRolledBack ==
  last.op = "start" /\ last.ret \in {"err_service", "err_orch"} =>
    /\ streams[last.ch] = 0
    /\ metadataCollectors[last.ch] = 0
    /\ ~obj[last.own].started
    /\ task[Hb(last.own)].pc = "none"
    /\ task[Pv(last.own)].pc = "none"

C3_Witness ==
  /\ last.op = "start"
  /\ last.ret = "err_orch"
  /\ "removeStream" \in last.calls
  /\ \E c \in Channels : streams[c] # 0

\* A connection's StopStream(c) reaches getStream in this step.
StopCall(t, c) ==
  /\ task[t].pc = "idle"
  /\ \/ task'[t].op = "stop" /\ task'[t].ch = c
     \/ last'.t = t /\ last'.op = "stop" /\ last'.ch = c

\* C4: StopStream(c) for a channel with no registered Stream returns the
\* not-found error at once: no call to the service or the orchestrator, no stop
\* signal sent, both maps as they were.
C4_StopUnregistered ==
  [][\A t \in ConnTasks, c \in Channels :
       StopCall(t, c) /\ streams[c] = 0 =>
         /\ last' = Event(t, [BlankTask EXCEPT !.op = "stop", !.ch = c], "err_notfound")
         /\ task'[t] = BlankTask
         /\ UNCHANGED <<streams, metadataCollectors>>
         /\ \A i \in Objs :
              /\ obj'[i].stopHeartbeat = obj[i].stopHeartbeat
              /\ obj'[i].stopPeersnap = obj[i].stopPeersnap
              /\ obj'[i].mc = obj[i].mc
              /\ obj'[i].endCalls = obj[i].endCalls]_vars

C4_Witness ==
  /\ last.op = "stop"
  /\ last.ret = "err_notfound"
  /\ last.calls = {}
  /\ \E c \in Channels : streams[c] # 0 /\ obj[streams[c]].started

\* C5: when a StopStream that found a Stream returns, service.EndStream,
\* orchestrator.StopStream and removeStream have all been attempted, whichever
\* of them failed, and the channel is not registered.
C5_StopAttemptsAll ==
  last.op \in {"stop", "hb", "pv", "sd"} /\ last.ret \notin {"err_notfound", "returned"} =>
    /\ {"service.EndStream", "orchestrator.StopStream", "removeStream"} \subseteq last.calls
    /\ streams[last.ch] = 0
    /\ metadataCollectors[last.ch] = 0

C5_Witness ==
  /\ last.op = "stop"
  /\ last.ret = "err_service"
  /\ streams[last.ch] = 0
  /\ obj[last.st].endCalls = 1

\* The positions of a goroutine inside StopStream.
StopPcs == {"sendHB", "sendMC", "finish"}

\* Ticks k..k+4 of history h are five failed ticks that began at counter 0.
FiveFailedFromZero(h, k) ==
  /\ k + 4 <= Len(h)
  /\ h[k].before = 0
  /\ \A j \in k..(k + 4) : h[j].failed

FailedAs(h, p) ==
  /\ Len(h) <= Len(p)
  /\ \A k \in 1..Len(h) : h[k].failed = p[k]

\* Each tick of history h changed the counter as lines 216-222 do.
Accounted(h) ==
  \A k \in 1..Len(h) :
    /\ h[k].after >= 0
    /\ h[k].failed => h[k].after = h[k].before + 1
    /\ ~h[k].failed => h[k].after = IF h[k].before > 0 THEN h[k].before - 1 ELSE 0

C8_TracksPopulated ==
  last.op = "gettracks" /\ last.ret = "ok" => last.got = 2

\* C9: when Shutdown has returned, the registry holds no Stream.
C9_ShutdownEmptiesRegistry ==
  proc = "exited" => \A c \in Channels : streams[c] = 0

\* C10: Authenticate returns success exactly when the lookup of the secret
\* succeeded and the presented key equals it, an error otherwise, and the step
\* changes neither map nor any Stream.
C10_Authenticate ==
  [][last'.op = "authenticate" =>
       /\ last'.ret = "ok" <=> (last'.lookupOk /\ last'.key = ServiceSecret(last'.ch))
       /\ last'.ret \in {"ok", "err_lookup", "err_key"}
       /\ ~last'.lookupOk => last'.ret = "err_lookup"
       /\ UNCHANGED <<streams, metadataCollectors, obj, task>>]_vars

C10_Witness ==
  /\ last.op = "authenticate"
  /\ last.ret = "ok"
  /\ streams[last.ch] # 0
  /\ obj[streams[last.ch]].started

\* ------------------------------------------------- the handshake dialect
ResponseOk == Response("200", <<>>, 0)

\* The latest step processed a well-formed first CONNECT after a nonce was
\* issued, and the channel's secret was fetched.
ConnectWithSecret ==
  /\ ftl.ev.op = "connect"
  /\ ~ftl.ev.second
  /\ ftl.ev.matched
  /\ Atoi(ftl.ev.channelArg) # 0
  /\ ftl.ev.issued
  /\ "GetHmacKey" \in ftl.ev.calls
  /\ ftl.ev.cause # "GetHmacKey"

\* The digest the client sent is the HMAC of the issued nonce under the
\* channel's secret.
DigestMatches ==
  /\ DecodeString(ftl.ev.hex).ok
  /\ DecodeString(ftl.ev.hex).bytes =
       HmacSum(ServiceSecret(Atoi(ftl.ev.channelArg)), ftl.ev.nonce)

\* The hex digests that differ from the expected one in exactly one position.
OneOff ==
  LET good == EncodeToString(HmacSum(ServiceSecret(Atoi(ftl.ev.channelArg)), ftl.ev.nonce)) IN
  /\ Len(ftl.ev.hex) = Len(good)
  /\ Cardinality({i \in 1..Len(good) :
                    FromHexChar(ftl.ev.hex[i]) # FromHexChar(good[i])}) = 1

\* C11: for every channel secret and every issued nonce, a well-formed
\* CONNECT is answered with the OK response if and only if the client's digest
\* equals HMAC(secret, nonce); a digest that differs from it in a single
\* position is rejected, nothing is sent and the connection is closed.
C11_ConnectDigest ==
  ConnectWithSecret =>
    /\ (ftl.ev.sent = <<ResponseOk>>) <=> DigestMatches
    /\ OneOff => ~DigestMatches
    /\ ~DigestMatches =>
         /\ ftl.ev.ret = "err"
         /\ ftl.wire = ftl.ev.wireBefore
         /\ ftl.transport = "closed"
         /\ ~ftl.connected
C11_Witness ==
  /\ ConnectWithSecret
  /\ DigestMatches
  /\ ftl.ev.ret = "ok"
  /\ ftl.wire = Append(ftl.ev.wireBefore, ResponseOk)

\* C12: a CONNECT on a connection that has processed a CONNECT before fails
\* with the multiple-connect error, calls neither handler.OnConnect nor
\* handler.GetHmacKey, sends nothing, and the connection is closed.
C12_SecondConnect ==
  (ftl.ev.op = "connect" /\ ftl.ev.second) =>
    /\ ftl.ev.ret = "err"
    /\ ftl.ev.cause = "ErrMultipleConnect"
    /\ ftl.ev.calls = {}
    /\ ftl.ev.sent = <<>>
    /\ ftl.transport = "closed"
    /\ ~ftl.connected
    /\ ftl.reader = "done"
C12_Witness ==
  /\ ftl.ev.op = "connect"
  /\ ftl.ev.second
  /\ ftl.ev.matched
  /\ Atoi(ftl.ev.channelArg) # 0
  /\ DecodeString(ftl.ev.hex).ok
  /\ DecodeString(ftl.ev.hex).bytes = ftl.ev.nonce
  /\ ftl.closes = 1

\* C13: whatever makes a CONNECT fail (argument list, channel id, secret
\* lookup, hex, digest), the server writes nothing to the client for it and
\* closes the connection, and writes nothing after the close: the bytes on the
\* wire do not depend on the cause.
ConnectFailures ==
  {"ErrUnexpectedArguments", "ErrAtoi", "GetHmacKey", "ErrInvalidHmacHex", "ErrInvalidHmacHash"}
C13_FailureIndistinguishable ==
  [][/\ (ftl'.ev.op = "connect" /\ ftl'.ev.cause \in ConnectFailures) =>
          /\ ftl'.wire = ftl.wire
          /\ ftl'.ev.sent = <<>>
          /\ ftl'.transport = "closed"
          /\ ftl'.reader = "done"
     /\ ftl.transport = "closed" => ftl'.wire = ftl.wire]_vars
C13_Witness ==
  /\ ftl.ev.op = "connect"
  /\ ftl.ev.cause = "ErrInvalidHmacHash"
  /\ OneOff
  /\ Len(ftl.wire) > 0
  /\ ftl.transport = "closed"

\* C14: a datagram is written to the video track only if its payload type is
\* a VideoPayloadType value an attribute line set, to the audio track only if
\* it is an AudioPayloadType value an attribute line set; with any other
\* payload type it is written to no track, raises no error and leaves the
\* connection open.
C14_RoutedBySetPayloadType ==
  (ftl.ev.op = "media" /\ ftl.ev.pt >= 0) =>
    /\ ftl.ev.to = "video" => ftl.ev.pt \in ftl.videoSet
    /\ ftl.ev.to = "audio" => ftl.ev.pt \in ftl.audioSet
    /\ ftl.ev.pt \notin (ftl.videoSet \cup ftl.audioSet) =>
         /\ ftl.ev.to = "none"
         /\ ftl.ev.ret = "ok"
         /\ ftl.connected

\* C15: on an authenticated connection, when the reply to the terminator line
\* is sent, a media socket is listening, the reply carries its port, the
\* tracks have been handed to the session owner and the media read loop has
\* been started on the socket.
C15_ReplyAfterListen ==
  (ftl.ev.op = "dot" /\ ftl.ev.ret = "ok") =>
    /\ ftl.hasAuthenticated
    /\ ftl.ev.sent[1].port \in Ports
    /\ ftl.ev.sent[1].port = ftl.mediaTransport
    /\ ftl.ev.listened
    /\ ftl.tracks
    /\ ftl.handed
    /\ ftl.mediaLoops > 0

\* --------------------------------------------------- the message dialect
\* C16: if at a sampler tick the payload bytes output since the previous tick
\* are at least the bandwidth ceiling, the errored flag is set; and a media
\* callback that starts with the flag set returns an error.
C16_BandwidthCutoff ==
  /\ (rtmp.ev.op = "tick" /\ rtmp.ev.produced >= BANDWIDTH_LIMIT) => rtmp.errored
  /\ (rtmp.ev.op \in {"audio", "video"} /\ rtmp.ev.wasErrored) => rtmp.ev.ret = "err"

\* C17: once the delivery has failed at more than 5 ticks in a row, the
\* errored flag is set.
C17_DeliveryFailures ==
  rtmp.failedRun > MetadataThreshold => rtmp.errored

\* C18: over the life of a connection StopStream is called at most once, for
\* the connection's channel, and only if StartStream succeeded in OnPublish;
\* an OnClose on a connection whose authentication or StartStream failed
\* calls no StopStream, however often OnClose is delivered.
C18_StopAtMostOnce ==
  /\ rtmp.stopCalls <= 1
  /\ rtmp.stopCalls = 1 => rtmp.startOk /\ rtmp.stopChannel = rtmp.channelID
  /\ ~rtmp.startOk => rtmp.stopCalls = 0
  /\ rtmp.ev.op = "close" => ~rtmp.authenticated
C18_Witness ==
  /\ rtmp.closes = 2
  /\ rtmp.stopCalls = 1
  /\ rtmp.ev.op = "close"
  /\ ~rtmp.ev.wasAuthenticated

\* The byte stream annexb(n1, ..., nk).
RECURSIVE Annexb(_)
Annexb(nalus) ==
  IF nalus = <<>> THEN <<>> ELSE <<0, 0, 0, 1>> \o Head(nalus) \o Annexb(Tail(nalus))

\* OnVideo has reassembled a unit that is no sequence header, with the
\* parameter sets [SPS, PPS] cached.
VideoWithCache ==
  /\ rtmp.ev.op = "video"
  /\ rtmp.ev.ret = "ok"
  /\ ~rtmp.ev.header
  /\ rtmp.ev.codec = [SPS |-> <<SPSNal>>, PPS |-> <<PPSNal>>]

\* C19: with [SPS, PPS] cached, a key-frame unit with NALs [N1, N2] is
\* reassembled to annexb(SPS, PPS, N1, N2) and an inter-frame unit with NALs
\* [N3] to annexb(N3): the unit's NALs in their order, the parameter sets in
\* front of them for a key frame only.
C19_Reassembly ==
  VideoWithCache =>
    /\ rtmp.ev.frameType = "key" =>
         /\ rtmp.outBuf = Annexb(<<SPSNal, PPSNal>> \o rtmp.ev.nalus)
         /\ rtmp.lastFullFrame = rtmp.outBuf
    /\ rtmp.ev.frameType = "inter" => rtmp.outBuf = Annexb(rtmp.ev.nalus)
C19_Witness ==
  /\ VideoWithCache
  /\ rtmp.ev.frameType = "key"
  /\ Len(rtmp.ev.nalus) = 2
  /\ rtmp.ev.nalus[1] # rtmp.ev.nalus[2]
  /\ rtmp.outBuf = Annexb(<<SPSNal, PPSNal, rtmp.ev.nalus[1], rtmp.ev.nalus[2]>>)

\* C20: when the control transport reaches end of stream without a
\* DISCONNECT, the connection is eventually closed: Close runs (which closes
\* the media socket and calls the session owner's OnClose).
C20_EndOfStreamCloses ==
  (ftl.transport = "eof") ~> (ftl.closes > 0 /\ ~ftl.mediaConnected)

\* ------------------------------------------------- the heartbeat's ticks
\* C21: once a StopStream called by another goroutine (a connection's close,
\* the preview goroutine, Shutdown) has returned for a Stream, that Stream's
\* heartbeat makes no further tick: no step of it is a tick that calls
\* sendThumbnail, sendMetadata and orchestrator.Heartbeat after the stop.
C21_NoTickAfterStop ==
  last.op = "tick" => ~last.stopped

\* C22: every tick calls sendThumbnail, sendMetadata and
\* orchestrator.Heartbeat whatever the others returned, and it raises the
\* failure counter exactly when at least one of the three returned an error;
\* otherwise it lowers the counter, not below 0.
C22_TickAllThree ==
  last.op = "tick" =>
    /\ last.calls = {"sendThumbnail", "sendMetadata", "orchestrator.Heartbeat"}
    /\ last.errs \subseteq last.calls
    /\ (last.after = last.before + 1) <=> (last.errs # {})
    /\ last.errs = {} => last.after = (IF last.before > 0 THEN last.before - 1 ELSE 0)

C22_Witness ==
  /\ last.op = "tick"
  /\ last.errs = {"sendThumbnail"}
  /\ "orchestrator.Heartbeat" \in last.calls
  /\ last.before = 2
  /\ last.after = 3

\* ------------------------------------------- the handshake dialect, continued
\* C23: an attribute line or the terminator is processed with success only on
\* a connection where an earlier CONNECT had a matching digest; a connection
\* with no such CONNECT has no media socket, no media port, no tracks and no
\* payload type stored.
C23_NothingBeforeConnect ==
  /\ (ftl.ev.op \in {"attribute", "dot"} /\ ftl.ev.ret = "ok") => ftl.digestMatched
  /\ ~ftl.digestMatched =>
       /\ ftl.sockets = {}
       /\ ~ftl.mediaConnected
       /\ ftl.assignedMediaPort = 0
       /\ ~ftl.tracks
       /\ ftl.mediaLoops = 0
       /\ ftl.videoSet = {} /\ ftl.audioSet = {}
       /\ ftl.VideoPayloadType = 0 /\ ftl.AudioPayloadType = 0

\* An attribute line has been stored on an accepted connection while the
\* media socket is open.
C23_Witness ==
  /\ ftl.ev.op = "attribute"
  /\ ftl.ev.ret = "ok"
  /\ ftl.digestMatched
  /\ ftl.videoSet # {}
  /\ ftl.sockets # {}

\* A line of the form Key: Value whose key the server does not know.
UnknownKeyLine(command) ==
  AttributeRegexMatch(command) /\ AttributeKey(command) \notin KnownAttributes

\* C24: on an authenticated connection a Key: Value line with an unknown key
\* is handled as an attribute line whatever its text is: it returns no error,
\* leaves the payload types and the authentication state as they were, writes
\* nothing to the client and does not close the connection.
C24_UnknownKeyIgnored ==
  (UnknownKeyLine(ftl.ev.line) /\ ftl.ev.before.hasAuthenticated) =>
    /\ ftl.ev.op = "attribute"
    /\ ftl.ev.ret = "ok"
    /\ ftl.VideoPayloadType = ftl.ev.before.VideoPayloadType
    /\ ftl.AudioPayloadType = ftl.ev.before.AudioPayloadType
    /\ ftl.hasAuthenticated = ftl.ev.before.hasAuthenticated
    /\ ftl.hmacRequested = ftl.ev.before.hmacRequested
    /\ ftl.wire = ftl.ev.wireBefore
    /\ ftl.connected
    /\ ftl.transport = "open"
    /\ ftl.closes = 0

\* The commands ProcessCommand has a handler for.
CommandOps == {"hmac", "connect", "ping", "disconnect", "attribute", "dot"}

\* C25: when the processing of a command has returned an error, the control
\* transport is closed, no media socket the connection allocated is left
\* open, handler.OnClose has been called and the read goroutine has ended, so
\* that no further command is processed.
C25_ErrorCloses ==
  (ftl.ev.op \in CommandOps /\ ftl.ev.ret = "err") =>
    /\ ftl.transport = "closed"
    /\ ~ftl.connected
    /\ ~ftl.mediaConnected
    /\ ftl.sockets = {}
    /\ ftl.closes >= 1
    /\ ftl.reader = "done"

\* C26 as stated: once a nonce has been issued, neither a later challenge
\* request nor the processing of CONNECT replaces the value the connection
\* holds.
C26_NonceKept ==
  (ftl.ev.op \in {"hmac", "connect"} /\ ftl.ev.issued) => ftl.hmacPayload = ftl.ev.nonce

\* C26: the connection holds the nonce of the latest challenge request until
\* CONNECT is processed.  Every challenge request stores the nonce it has just
\* generated and sends that one; a CONNECT that gets as far as the key of its
\* channel replaces the stored value by the digest it expects, the HMAC of
\* the stored value under that key, and a CONNECT that returns earlier leaves
\* it; no other step changes it.
C26_LatestNonceUntilConnect ==
  /\ [](ftl.ev.op = "hmac" =>
          /\ ftl.hmacPayload = DecodeString(ftl.ev.hex).bytes
          /\ ftl.hmacPayload \in NonceBytes
          /\ ftl.ev.ret = "ok" =>
               ftl.wire = Append(ftl.ev.wireBefore, Response("200", ftl.ev.hex, 0)))
  /\ [](ftl.ev.op = "connect" =>
          ftl.hmacPayload =
            IF ConnectStage(ftl.ev.cause) >= 4
            THEN HmacSum(ServiceSecret(Atoi(ftl.ev.channelArg)), ftl.ev.nonce)
            ELSE ftl.ev.nonce)
  /\ [][ftl'.ev.op \notin {"hmac", "connect"} => ftl'.hmacPayload = ftl.hmacPayload]_vars

\* A second challenge request has replaced the nonce of the first.
C26_Witness ==
  /\ ftl.ev.op = "hmac"
  /\ ftl.ev.ret = "ok"
  /\ ftl.ev.issued
  /\ ftl.ev.nonce # ftl.hmacPayload
  /\ Len(ftl.wire) = 2

\* ------------------------------------------- the message dialect, continued
\* C27: a media callback that begins while errored is set returns an error
\* and does nothing else: no packet is counted or written, outputBytes, the
\* audio buffer, the reassembled unit and the last full frame stay as they
\* are; and no step of the callbacks or of the sampler clears errored.
C27_ErroredFailsFast ==
  [][/\ (rtmp.errored /\ rtmp' # rtmp /\ rtmp'.ev.op \in {"audio", "video"}) =>
          /\ rtmp'.ev.ret = "err"
          /\ rtmp'.ev.cause = "errored"
          /\ rtmp' = [rtmp EXCEPT !.media = @ + 1, !.ev = rtmp'.ev]
     /\ rtmp.errored => rtmp'.errored]_vars

\* The bandwidth test has set errored and a video unit has been refused.
C27_Witness ==
  /\ rtmp.errored
  /\ rtmp.ev.op = "video"
  /\ rtmp.ev.wasErrored
  /\ rtmp.ev.ret = "err"
  /\ rtmp.videoPackets + rtmp.audioPackets = 2
  /\ rtmp.pc = "live"

\* C28: every byte is counted in one sampling window, so the bandwidth test
\* marks the connection errored only when a window has had BANDWIDTH_LIMIT
\* bytes of output: a connection all of whose windows stayed below the limit
\* (even with the bytes of a callback that straddles a tick counted on both
\* sides) is not marked.
C28_WindowBelowCeiling ==
  (rtmp.ev.op = "tick" /\ rtmp.errored /\ ~rtmp.ev.wasErrored) => ~rtmp.calm

\* C29: a frame is 960 stereo 16-bit samples, 3840 bytes.  An OnAudio of a
\* regular unit (not a sequence header, which appends nothing) that returns
\* success after appending n decoded bytes to a buffer of b bytes has
\* encoded floor((b+n)/3840) frames, taken from the front of the buffer one
\* after the other, has left (b+n) mod 3840 bytes in the buffer, fewer than a
\* frame, and has raised the audio packet counter by the number of packets it
\* wrote, one for each frame.
C29_Rechunking ==
  (rtmp.ev.op = "audio" /\ rtmp.ev.ret = "ok" /\ ~rtmp.ev.header) =>
    LET total == rtmp.ev.buffered + rtmp.ev.pcm IN
    /\ BlockSize * 4 = 3840
    /\ Len(rtmp.ev.offsets) = total \div 3840
    /\ \A k \in 1..Len(rtmp.ev.offsets) : rtmp.ev.offsets[k] = (k - 1) * 3840
    /\ rtmp.audioBuffer = total % 3840
    /\ rtmp.audioBuffer < 3840
    /\ rtmp.ev.packets = Len(rtmp.ev.offsets)
    /\ rtmp.audioPackets = rtmp.ev.counted + rtmp.ev.packets

\* 8192 bytes have been appended to a buffer of 256: two frames, 768 left.
C29_Witness ==
  /\ rtmp.ev.op = "audio"
  /\ rtmp.ev.ret = "ok"
  /\ ~rtmp.ev.header
  /\ rtmp.ev.buffered = 256
  /\ rtmp.ev.pcm = 8192
  /\ rtmp.ev.offsets = <<0, 3840>>
  /\ rtmp.audioBuffer = 768
  /\ rtmp.audioPackets = 3

\* C30: OnPublish calls StartStream only right after its Authenticate for the
\* same channel has returned success; when the channel id does not parse or
\* Authenticate fails, it makes no StartStream call, initializes no track,
\* starts no sampler and holds no Stream.
PublishFns(h) == {h.ev.calls[k].fn : k \in 1..Len(h.ev.calls)}
C30_StartAfterAuthenticate ==
  rtmp.ev.op = "publish" =>
    /\ \A k \in 1..Len(rtmp.ev.calls) :
         rtmp.ev.calls[k].fn = "StartStream" =>
           /\ k > 1
           /\ rtmp.ev.calls[k - 1] = PublishCall("Authenticate", rtmp.ev.calls[k].ch, "ok")
    /\ rtmp.ev.cause \in {"empty", "ParseUint", "panic", "Authenticate"} =>
         /\ PublishFns(rtmp) \subseteq {"Authenticate"}
         /\ rtmp.sampler = "none"
         /\ ~rtmp.startOk
         /\ ~rtmp.authenticated
         /\ rtmp.ev.ret = "err"

\* A publish that was authenticated and has started its Stream, its tracks
\* and its sampler.
C30_Witness ==
  /\ rtmp.ev.op = "publish"
  /\ rtmp.ev.ret = "ok"
  /\ Len(rtmp.ev.calls) = 7
  /\ rtmp.ev.calls[1] = PublishCall("Authenticate", rtmp.channelID, "ok")
  /\ rtmp.ev.calls[2] = PublishCall("StartStream", rtmp.channelID, "ok")
  /\ rtmp.sampler = "wait"

\* C31: a tick that finds the Stream of its channel takes every queued
\* preview out of the queue and passes at most one of them, the newest, to
\* service.SendJpegPreviewImage; a preview that an earlier tick took out is
\* never found or delivered again, and the queue is empty afterwards.  With
\* an empty queue nothing is passed to the service and sendThumbnail is not
\* among the calls that failed.
C31_NewestPreviewOnly ==
  (last.op = "tick" /\ last.st # 0) =>
    /\ Len(last.delivered) <= 1
    /\ last.left = <<>>
    /\ obj[last.st].lastThumbnail = <<>>
    /\ \A k \in 1..Len(last.queued) : last.queued[k] > last.drained
    /\ last.delivered # <<>> =>
         /\ last.queued # <<>>
         /\ last.delivered[1] = last.queued[Len(last.queued)]
    /\ last.queued = <<>> =>
         /\ last.delivered = <<>>
         /\ "sendThumbnail" \notin last.errs

\* A tick has found the second and the third preview queued, the first one
\* taken out by an earlier tick, and has delivered the third.
C31_Witness ==
  /\ last.op = "tick"
  /\ last.st # 0
  /\ last.queued = <<2, 3>>
  /\ last.drained = 1
  /\ last.delivered = <<3>>
  /\ last.errs = {}

\* C32: no StopStream call is left at a send it can never complete.  Nothing
\* receives from stream.stopHeartbeat, so a call that is at that send with
\* the buffer full stays there for ever.
C32_NoStopBlocked ==
  \A t \in Tasks :
    task[t].pc = "sendHB" => obj[task[t].st].stopHeartbeat < StopChanCap

\* C33: the heartbeat goroutine started for a Stream acts on that Stream
\* only: the Stream a tick finds registered for its channel, whose previews
\* and metadata it sends and which it stops at the threshold, is the one the
\* goroutine was started for.
C33_HeartbeatOwnStream ==
  (last.op = "tick" /\ last.st # 0) => last.t = Hb(last.st)

\* C34: handler.OnClose is called at most once on a connection.
C34_OnCloseOnce == ftl.closes <= 1

\* C35: a connection whose publish was rejected because its channel has a
\* Stream makes no StopStream call, and none of its steps (the rejected
\* publish, its close) changes the registry, the Streams with their tracks or
\* the heartbeat and preview goroutines.
C35_RejectedPublishHarmless ==
  /\ [](rtmp.pc \in {"failed", "closed"} =>
          /\ rtmp.stopCalls = 0
          /\ task[Conn(2)].pc = "idle")
  /\ [][rtmp' # rtmp =>
          /\ streams' = streams
          /\ metadataCollectors' = metadataCollectors
          /\ obj' = obj
          /\ task' = task]_vars

\* The rejected connection has closed and the publisher's Stream is still
\* registered and live, its heartbeat running.
C35_Witness ==
  /\ rtmp.pc = "closed"
  /\ rtmp.channelID = 1
  /\ rtmp.ev.op = "close"
  /\ streams[1] # 0
  /\ metadataCollectors[1] = streams[1]
  /\ obj[streams[1]].live
  /\ task[Hb(streams[1])].pc = "hb_select"

\* C36: service.EndStream is called at most once with the StreamID of a
\* Stream, whichever of the connection, the rollback of the start, the
\* heartbeat, the preview goroutine and Shutdown stop it and however their
\* calls interleave.
C36_EndStreamOnce ==
  /\ \A i \in Objs : obj[i].endCalls <= 1
  /\ last.ended <= 1

\* The heartbeat's StopStream has ended a Stream while the connection's
\* StopStream for it waits at the first send.
C36_Witness ==
  /\ last.t \in HbTasks
  /\ last.op = "hb"
  /\ last.ended = 1
  /\ task[Conn(1)].pc = "sendHB"
  /\ task[Conn(1)].st = last.st

\* C37: a connection has at most one media socket open and at most one media
\* goroutine running, whatever lines it is sent.
C37_OneMediaSocket ==
  /\ Cardinality(ftl.sockets) <= 1
  /\ ftl.mediaLoops <= 1

\* C38: when net.ListenUDP fails during the terminator line of an
\* authenticated connection, the command returns an error: nothing is written
\* to the client, neither OnTracks nor OnPlay is called, and the connection is
\* closed.
C38_ListenFailureFails ==
  (ftl.ev.op = "dot" /\ ftl.ev.cause # "ErrConnectBeforeAuth" /\ ~ftl.ev.listened) =>
    /\ ftl.ev.ret = "err"
    /\ ftl.ev.sent = <<>>
    /\ ftl.wire = ftl.ev.wireBefore
    /\ ftl.ev.calls = {}
    /\ ftl.transport = "closed"
    /\ ~ftl.connected

\* C40: a publish with a name that is not empty and has no "-" returns an
\* error: it does not panic, it calls neither Authenticate nor anything after
\* it, and the handler holds no Stream.  A name with several "-" is cut at
\* the first: the text before it is the channel and all the text after it is
\* the stream key.
C40_NoSeparatorRejected ==
  (rtmp.ev.op = "publish" /\ rtmp.ev.name # "") =>
    /\ (\A i \in 1..Len(rtmp.ev.name) : SubSeq(rtmp.ev.name, i, i) # "-") =>
         /\ rtmp.ev.ret = "err"
         /\ rtmp.ev.cause # "panic"
         /\ rtmp.ev.calls = <<>>
         /\ ~rtmp.startOk
         /\ ~rtmp.authenticated
    /\ rtmp.ev.calls # <<>> =>
         \E i \in 1..Len(rtmp.ev.name) :
           /\ SubSeq(rtmp.ev.name, i, i) = "-"
           /\ \A j \in 1..(i - 1) : SubSeq(rtmp.ev.name, j, j) # "-"
           /\ rtmp.channelID = ParseUint32(SubSeq(rtmp.ev.name, 1, i - 1)).val
           /\ rtmp.ev.key = SubSeq(rtmp.ev.name, i + 1, Len(rtmp.ev.name))

\* C39: whenever no goroutine is between the two map writes of newStream or
\* between the two deletes of removeStream, the channels that have a Stream
\* in mgr.streams are the channels that have a chan in
\* mgr.metadataCollectors.
C39_SameChannels ==
  (\A t \in Tasks : task[t].pc \notin {"ns_collector", "rm_collector"}) =>
    {c \in Channels : streams[c] # 0} = {c \in Channels : metadataCollectors[c] # 0}

====
